---- MODULE Spec2Model ----
(***************************************************************************)
(* The ACP session adapter of FlowHub: message_listener_task in            *)
(* src-tauri/src/agents/iflow_adapter.rs.  One task per agent: an outer    *)
(* retry loop that connects, and per connection a select loop over the     *)
(* command channel and the socket.                                         *)
(***************************************************************************)
EXTENDS Integers, Sequences, FiniteSets, TLC

(***************************************************************************)
(* Bounds of the model and constants of the program.                       *)
(***************************************************************************)
MaxCommands == 2     \* commands the owner submits on the channel
MaxConnects == 2     \* connects that succeed
MaxItems == 2        \* entries of an array given to a function
MaxStored == 1       \* entries of a Vec of the session store
MaxCalls == 2        \* storage commands in progress at a time

max_retries == 5

\* Option::None for the ids and session ids (which are all >= 1).
None == 0

\* The model names a SetModel command may carry.
Models == {"m1"}

VARIABLES
    pc,                          \* position of the task
    retry_count,
    cached_session_id,
    queued_prompts,
    rpc_id_counter,
    initialize_request_id,
    session_new_request_id,
    session_load_request_id,
    session_id,
    pending_prompt_request_ids,
    pending_set_model_requests,
    in_frame,                    \* the per-line loop has lines of the frame left
    outbox,                      \* the handshake requests sent on this connection
    first_request,               \* the method of the first request sent on it
    sends,                       \* the send_message calls of the last step
    allocated,                   \* the ids next_rpc_id returned on this connection
    established,                 \* a session/load or session/new succeeded on it
    emits,                       \* events emitted by the last step
    current_models,              \* currentModel of its model-registry events
    finish_reasons,              \* reason of its task-finish events
    fs_calls,                    \* its tokio::fs calls
    replies,                     \* oneshot replies resolved by the last step
    last,                        \* the last step taken: what it reacted to
    connects,                    \* connects that succeeded so far
    commands_submitted,          \* commands received from the channel so far
    channel_closed,              \* the owner dropped the sender and the channel is empty
    sent_prompts,                \* prompts whose session/prompt send succeeded
    queued_no_session,           \* prompts pushed at the back of the queue
    consecutive_failures,        \* failed connects since the last success
    sleeps,                      \* delayed retries since the last success
    agents,                      \* AgentManager: the instances registered for the agent id
    processes,                   \* the iflow processes that run
    senders,                     \* who holds a sender of the first instance's channel
    channel,                     \* SetModel commands waiting in that channel
    rx,                          \* the oneshot reply of the SetModel command
    listener,                    \* the first instance's listener task
    listener_retries,            \* its retry_count
    switch_pc,                   \* position of switch_agent_model
    target_model,                \* its target_model
    outcome,                     \* how its wait for the reply ended
    returned,                    \* what it returned
    spawned_model,               \* the model spawn_iflow_agent was called with
    input,                       \* argument of the function applied
    output,                      \* its value
    file,                        \* the session store file at storage_path
    storage_lock,                \* AppState::storage_lock: the call holding the guard
    written,                     \* the write_snapshot_to_path calls so far
    calls                        \* the storage commands in progress

taskVars == <<pc, retry_count, cached_session_id, queued_prompts>>
connVars == <<rpc_id_counter, initialize_request_id, session_new_request_id,
              session_load_request_id, session_id, pending_prompt_request_ids,
              pending_set_model_requests, in_frame, outbox, first_request, allocated,
              established>>
stepVars == <<sends, emits, current_models, finish_reasons, fs_calls, replies, last>>
ownerVars == <<commands_submitted, channel_closed>>
histVars == <<connects, sent_prompts, queued_no_session, consecutive_failures, sleeps>>
switchVars == <<agents, processes, senders, channel, rx, listener,
                listener_retries, switch_pc, target_model, outcome, returned,
                spawned_model>>
callVars == <<input, output>>
storeVars == <<file, storage_lock, written, calls>>
otherVars == <<switchVars, callVars, storeVars>>
vars == <<taskVars, connVars, stepVars, ownerVars, histVars, otherVars>>

\* An inbound line has no "method" member.
NoMethod == ""

\* A JSON value read as a string: absent, a string, or a value of another
\* type. Value::as_str gives Some for a string only; Option::unwrap_or.
NoValue == [kind |-> "absent", s |-> ""]
Str(s) == [kind |-> "string", s |-> s]
NonStr == [kind |-> "other", s |-> ""]
as_str(v) == IF v.kind = "string" THEN <<v.s>> ELSE <<>>
unwrap_or(opt, default) == IF opt = <<>> THEN default ELSE opt[1]

\* What a step reacted to: op is the action, and for an inbound line, to is the
\* method of the outstanding request the line answers (or of the request the
\* agent makes), with the line's error flag, session id, currentModelId and
\* stopReason, the id parse_rpc_id read and, for a line with a method, the
\* kind of its "id", whether its params hold path and content, whether
\* tokio::fs succeeded, the sessionUpdate of a session/update, and whether
\* the frame holds more lines after this one.
Step(op) ==
    [op |-> op, to |-> NoMethod, error |-> FALSE, sessionId |-> None, id |-> None,
     raw |-> "absent", currentModelId |-> <<>>, stopReason |-> NoValue,
     path |-> FALSE, content |-> FALSE, io_ok |-> TRUE, update |-> "absent",
     more |-> FALSE]

(***************************************************************************)
(* The state a handler works on, threaded through the helpers below.       *)
(* brk records which loop a `break` left: "for" the per-line loop, "loop"  *)
(* the select loop of the connection, "task" the outer retry loop.         *)
(* fail_at is the input deciding which send_message call of the step       *)
(* fails (0: none), io_ok the input deciding whether tokio::fs succeeds.   *)
(* current_models holds the currentModel of the model-registry events the  *)
(* step emits for a session/set_model response, finish_reasons the reason  *)
(* of its task-finish events, fs_calls its calls of tokio::fs.             *)
(***************************************************************************)
State(f) ==
    [cached_session_id |-> cached_session_id,
     queued_prompts |-> queued_prompts,
     rpc_id_counter |-> rpc_id_counter,
     initialize_request_id |-> initialize_request_id,
     session_new_request_id |-> session_new_request_id,
     session_load_request_id |-> session_load_request_id,
     session_id |-> session_id,
     pending_prompt_request_ids |-> pending_prompt_request_ids,
     pending_set_model_requests |-> pending_set_model_requests,
     outbox |-> outbox,
     first_request |-> first_request,
     allocated |-> allocated,
     sends |-> <<>>,
     emits |-> <<>>,
     current_models |-> <<>>,
     finish_reasons |-> <<>>,
     fs_calls |-> <<>>,
     replies |-> <<>>,
     id |-> None,
     fail_at |-> f,
     io_ok |-> TRUE,
     brk |-> "none"]

\* next_rpc_id without `*counter += 1`.
next_rpc_id_no_increment(S) ==
    [S EXCEPT !.id = S.rpc_id_counter,
              !.allocated = Append(@, S.rpc_id_counter)]

\* fn next_rpc_id: the id is left in S.id.
next_rpc_id(S) ==
    [S EXCEPT !.id = S.rpc_id_counter,
              !.rpc_id_counter = @ + 1,
              !.allocated = Append(@, S.rpc_id_counter)]

\* The methods of the requests build_rpc_request is called with, and those of
\* the handshake among them.
RequestMethods == {"initialize", "session/load", "session/new", "session/prompt",
                   "session/cancel", "session/set_model"}
HandshakeMethods == {"initialize", "session/load", "session/new"}

\* AcpConnection::send_message; the outcome of the call is the last entry's ok.
send_message(S, method, id, session, prompt, text) ==
    [S EXCEPT !.sends = Append(@, [method |-> method, id |-> id, session |-> session,
                                   prompt |-> prompt, text |-> text,
                                   ok |-> (Len(S.sends) + 1 # S.fail_at)]),
              !.outbox = IF method \in HandshakeMethods THEN Append(@, method) ELSE @,
              !.first_request = IF @ = NoMethod /\ method \in RequestMethods
                                THEN method ELSE @]

send_ok(S) == S.sends[Len(S.sends)].ok

emit(S, event) == [S EXCEPT !.emits = Append(@, event)]

\* oneshot::Sender::send on the responder of a SetModel command.
respond(S, responder, ok, value) ==
    [S EXCEPT !.replies = Append(@, [responder |-> responder, ok |-> ok, value |-> value])]

\* HashMap::insert and HashMap::remove on pending_set_model_requests.
map_insert(m, k, v) == [x \in (DOMAIN m) \cup {k} |-> IF x = k THEN v ELSE m[x]]
map_remove(m, k) == [x \in (DOMAIN m) \ {k} |-> m[x]]
EmptyMap == [x \in {} |-> None]

(***************************************************************************)
(* The drain of queued_prompts that follows a session/load result          *)
(* (lines 715-730) and a session/new result with a session id (772-787).   *)
(***************************************************************************)
\* The drain with push_back in place of push_front for the prompt that failed.
RECURSIVE flush_queued_prompts_push_back(_)
flush_queued_prompts_push_back(S) ==
    IF S.queued_prompts = <<>> THEN S
    ELSE LET prompt == Head(S.queued_prompts)
             P == [S EXCEPT !.queued_prompts = Tail(@)]
             A == next_rpc_id(P)
             T == send_message(A, "session/prompt", A.id, A.session_id, prompt, "")
         IN  IF ~send_ok(T)
             THEN [T EXCEPT !.queued_prompts = Append(@, prompt)]
             ELSE flush_queued_prompts_push_back(
                      [T EXCEPT !.pending_prompt_request_ids = @ \cup {A.id}])

RECURSIVE flush_queued_prompts(_)
flush_queued_prompts(S) ==
    IF S.queued_prompts = <<>> THEN S
    ELSE LET prompt == Head(S.queued_prompts)
             P == [S EXCEPT !.queued_prompts = Tail(@)]
             A == next_rpc_id(P)
             T == send_message(A, "session/prompt", A.id, A.session_id, prompt, "")
         IN  IF ~send_ok(T)
             THEN [T EXCEPT !.queued_prompts = <<prompt>> \o @]
             ELSE flush_queued_prompts(
                      [T EXCEPT !.pending_prompt_request_ids = @ \cup {A.id}])

\* The task-finish helper that adds the status line for every reason.
emit_task_finish_always_status(S, reason) ==
    [emit(emit(S, "stream-message"), "task-finish") EXCEPT
        !.finish_reasons = Append(@, reason)]

\* router::emit_task_finish
emit_task_finish(S, reason) ==
    LET M == IF reason # "end_turn" THEN emit(S, "stream-message") ELSE S
    IN  [emit(M, "task-finish") EXCEPT !.finish_reasons = Append(@, reason)]

(***************************************************************************)
(* The commands of the select loop.                                        *)
(***************************************************************************)
\* The UserPrompt arm with push_front in place of push_back when no session
\* id exists.
UserPrompt_queues_at_front(S, prompt) ==
    IF S.session_id # None
    THEN LET A == next_rpc_id(S)
             T == send_message(A, "session/prompt", A.id, A.session_id, prompt, "")
         IN  IF ~send_ok(T)
             THEN [T EXCEPT !.queued_prompts = <<prompt>> \o @, !.brk = "loop"]
             ELSE [T EXCEPT !.pending_prompt_request_ids = @ \cup {A.id}]
    ELSE [S EXCEPT !.queued_prompts = <<prompt>> \o @]

\* The UserPrompt arm that also queues the prompt it sent.
UserPrompt_requeues_sent(S, prompt) ==
    IF S.session_id # None
    THEN LET A == next_rpc_id(S)
             T == send_message(A, "session/prompt", A.id, A.session_id, prompt, "")
         IN  IF ~send_ok(T)
             THEN [T EXCEPT !.queued_prompts = <<prompt>> \o @, !.brk = "loop"]
             ELSE [T EXCEPT !.pending_prompt_request_ids = @ \cup {A.id},
                            !.queued_prompts = Append(@, prompt)]
    ELSE [S EXCEPT !.queued_prompts = Append(@, prompt)]

UserPrompt(S, prompt) ==
    IF S.session_id # None
    THEN LET A == next_rpc_id(S)
             T == send_message(A, "session/prompt", A.id, A.session_id, prompt, "")
         IN  IF ~send_ok(T)
             THEN [T EXCEPT !.queued_prompts = <<prompt>> \o @, !.brk = "loop"]
             ELSE [T EXCEPT !.pending_prompt_request_ids = @ \cup {A.id}]
    ELSE [S EXCEPT !.queued_prompts = Append(@, prompt)]

\* The CancelPrompt arm without the test of session_id.
CancelPrompt_no_session_check(S) ==
    LET A == next_rpc_id(S)
    IN  send_message(A, "session/cancel", A.id, A.session_id, None, "")

CancelPrompt(S) ==
    IF S.session_id # None
    THEN LET A == next_rpc_id(S)
         IN  send_message(A, "session/cancel", A.id, A.session_id, None, "")
    ELSE S

\* The SetModel arm that leaves the reply unresolved when no session id exists.
SetModel_silent_when_not_ready(S, model, response) ==
    IF S.session_id # None
    THEN LET A == next_rpc_id(S)
             T == send_message(A, "session/set_model", A.id, A.session_id, None, model)
         IN  IF ~send_ok(T)
             THEN [respond(T, response, FALSE, "Failed to send session/set_model")
                      EXCEPT !.brk = "loop"]
             ELSE [T EXCEPT !.pending_set_model_requests =
                               map_insert(@, A.id, [response |-> response, model |-> model])]
    ELSE S

SetModel(S, model, response) ==
    IF S.session_id # None
    THEN LET A == next_rpc_id(S)
             T == send_message(A, "session/set_model", A.id, A.session_id, None, model)
         IN  IF ~send_ok(T)
             THEN [respond(T, response, FALSE, "Failed to send session/set_model")
                      EXCEPT !.brk = "loop"]
             ELSE [T EXCEPT !.pending_set_model_requests =
                               map_insert(@, A.id, [response |-> response, model |-> model])]
    ELSE respond(S, response, FALSE, "Session not ready")

(***************************************************************************)
(* The "id" member of an inbound message, as JSON gives it: absent, an     *)
(* integer n, a number with a fraction (n + 1/2, n >= 0), or anything else *)
(* (a string, null, an integer above i64::MAX).                            *)
(***************************************************************************)
NoId == [kind |-> "absent", n |-> 0]
IntId(n) == [kind |-> "int", n |-> n]
FloatId(n) == [kind |-> "float", n |-> n]
OtherId == [kind |-> "other", n |-> 0]

\* fn parse_rpc_id: as_i64, else as_u64 with try_from, else as_f64 with
\* `v as i64` (which truncates), else None.
parse_rpc_id(message) ==
    CASE message.id.kind = "int" -> message.id.n
      [] message.id.kind = "float" -> message.id.n
      [] OTHER -> None

(***************************************************************************)
(* handle_server_request: the reply to an inbound request of the agent.    *)
(* params.path and params.content say whether the member is a string.      *)
(***************************************************************************)
send_rpc_result(S, id, result) == send_message(S, "result", id, None, None, result)

send_rpc_error(S, id, code, message) ==
    send_message(S, "error", id, None, None, code \o " " \o message)

\* tokio::fs::read_to_string and tokio::fs::write: the call is made, io_ok
\* says whether it succeeds.
fs_call(S, call) == [S EXCEPT !.fs_calls = Append(@, call)]

\* handle_server_request writing the file before it looks for `content`.
handle_server_request_writes_first(S, request_id, method, params) ==
    CASE method = "session/request_permission" ->
            send_rpc_result(S, request_id, "allow_once")
      [] method = "fs/read_text_file" ->
            IF ~params.path
            THEN send_rpc_error(S, request_id, "-32602", "Missing path")
            ELSE LET F == fs_call(S, "read_to_string")
                 IN  IF F.io_ok
                     THEN send_rpc_result(F, request_id, "content,path,sessionId")
                     ELSE send_rpc_error(F, request_id, "-32603", "Failed to read file")
      [] method = "fs/write_text_file" ->
            IF ~params.path
            THEN send_rpc_error(S, request_id, "-32602", "Missing path")
            ELSE LET F == fs_call(S, "write")
                 IN  IF ~params.content
                     THEN send_rpc_error(F, request_id, "-32602", "Missing content")
                     ELSE IF F.io_ok
                     THEN send_rpc_result(F, request_id, "null")
                     ELSE send_rpc_error(F, request_id, "-32603", "Failed to write file")
      [] method = "_iflow/user/questions" ->
            send_rpc_result(S, request_id, "answers")
      [] method = "_iflow/plan/exit" ->
            send_rpc_result(S, request_id, "approved")
      [] OTHER ->
            send_rpc_error(S, request_id, "-32601", "Method not found")

handle_server_request(S, request_id, method, params) ==
    CASE method = "session/request_permission" ->
            send_rpc_result(S, request_id, "allow_once")
      [] method = "fs/read_text_file" ->
            IF ~params.path
            THEN send_rpc_error(S, request_id, "-32602", "Missing path")
            ELSE LET F == fs_call(S, "read_to_string")
                 IN  IF F.io_ok
                     THEN send_rpc_result(F, request_id, "content,path,sessionId")
                     ELSE send_rpc_error(F, request_id, "-32603", "Failed to read file")
      [] method = "fs/write_text_file" ->
            IF ~params.path
            THEN send_rpc_error(S, request_id, "-32602", "Missing path")
            ELSE IF ~params.content
            THEN send_rpc_error(S, request_id, "-32602", "Missing content")
            ELSE LET F == fs_call(S, "write")
                 IN  IF F.io_ok
                     THEN send_rpc_result(F, request_id, "null")
                     ELSE send_rpc_error(F, request_id, "-32603", "Failed to write file")
      [] method = "_iflow/user/questions" ->
            send_rpc_result(S, request_id, "answers")
      [] method = "_iflow/plan/exit" ->
            send_rpc_result(S, request_id, "approved")
      [] OTHER ->
            send_rpc_error(S, request_id, "-32601", "Method not found")

(***************************************************************************)
(* The response handlers, in the order the per-line loop tries them.       *)
(***************************************************************************)
\* The initialize handler without the session/load branch.
on_initialize_response_always_new(S, line) ==
    LET I == [S EXCEPT !.initialize_request_id = None]
    IN  IF line.error
        THEN [emit(I, "agent-error") EXCEPT !.brk = "for"]
        ELSE LET A == next_rpc_id(I)
                 B == [A EXCEPT !.session_new_request_id = A.id]
                 T == send_message(B, "session/new", A.id, None, None, "")
             IN  IF ~send_ok(T) THEN [T EXCEPT !.brk = "for"] ELSE T

\* The initialize handler without `initialize_request_id = None`.
on_initialize_response_keeps_id(S, line) ==
    IF line.error
    THEN [emit(S, "agent-error") EXCEPT !.brk = "for"]
    ELSE IF S.session_id # None
    THEN LET A == next_rpc_id(S)
             B == [A EXCEPT !.session_load_request_id = A.id]
             T == send_message(B, "session/load", A.id, S.session_id, None, "")
         IN  IF ~send_ok(T) THEN [T EXCEPT !.brk = "for"] ELSE T
    ELSE LET A == next_rpc_id(S)
             B == [A EXCEPT !.session_new_request_id = A.id]
             T == send_message(B, "session/new", A.id, None, None, "")
         IN  IF ~send_ok(T) THEN [T EXCEPT !.brk = "for"] ELSE T

on_initialize_response(S, line) ==
    LET I == [S EXCEPT !.initialize_request_id = None]
    IN  IF line.error
        THEN [emit(I, "agent-error") EXCEPT !.brk = "for"]
        ELSE IF I.session_id # None
        THEN LET A == next_rpc_id(I)
                 B == [A EXCEPT !.session_load_request_id = A.id]
                 T == send_message(B, "session/load", A.id, I.session_id, None, "")
             IN  IF ~send_ok(T) THEN [T EXCEPT !.brk = "for"] ELSE T
        ELSE LET A == next_rpc_id(I)
                 B == [A EXCEPT !.session_new_request_id = A.id]
                 T == send_message(B, "session/new", A.id, None, None, "")
             IN  IF ~send_ok(T) THEN [T EXCEPT !.brk = "for"] ELSE T

\* The session/load handler without `session_load_request_id = None`.
on_session_load_response_keeps_id(S, line) ==
    IF line.error
    THEN LET A == next_rpc_id(S)
             B == [A EXCEPT !.session_new_request_id = A.id]
             T == send_message(B, "session/new", A.id, None, None, "")
         IN  IF ~send_ok(T) THEN [T EXCEPT !.brk = "for"] ELSE T
    ELSE LET E == emit(S, "stream-message")
         IN  IF E.session_id # None THEN flush_queued_prompts(E) ELSE E

\* The session/load handler without the fallback to session/new.
on_session_load_response_no_fallback(S, line) ==
    LET L == [S EXCEPT !.session_load_request_id = None]
    IN  IF line.error
        THEN L
        ELSE LET E == emit(L, "stream-message")
             IN  IF E.session_id # None THEN flush_queued_prompts(E) ELSE E

on_session_load_response(S, line) ==
    LET L == [S EXCEPT !.session_load_request_id = None]
    IN  IF line.error
        THEN LET A == next_rpc_id(L)
                 B == [A EXCEPT !.session_new_request_id = A.id]
                 T == send_message(B, "session/new", A.id, None, None, "")
             IN  IF ~send_ok(T) THEN [T EXCEPT !.brk = "for"] ELSE T
        ELSE LET E == emit(L, "stream-message")
             IN  IF E.session_id # None THEN flush_queued_prompts(E) ELSE E

\* The session/new handler without the `session_id.is_none()` test.
on_session_new_response_no_check(S, line) ==
    LET N == [S EXCEPT !.session_new_request_id = None]
    IN  IF line.error
        THEN [emit(N, "agent-error") EXCEPT !.brk = "for"]
        ELSE flush_queued_prompts([N EXCEPT !.session_id = line.sessionId,
                                            !.cached_session_id = line.sessionId])

on_session_new_response(S, line) ==
    LET N == [S EXCEPT !.session_new_request_id = None]
    IN  IF line.error
        THEN [emit(N, "agent-error") EXCEPT !.brk = "for"]
        ELSE LET U == [N EXCEPT !.session_id = line.sessionId,
                                !.cached_session_id = line.sessionId]
             IN  IF U.session_id = None
                 THEN [emit(U, "agent-error") EXCEPT !.brk = "for"]
                 ELSE flush_queued_prompts(U)

\* The prompt handler with `contains` in place of `remove`.
on_prompt_response_keeps_id(S, response_id, line) ==
    IF line.error
    THEN emit(S, "agent-error")
    ELSE emit_task_finish(S, unwrap_or(as_str(line.stopReason), "completed"))

\* The prompt handler treating an error as the session handlers do: `break`.
on_prompt_response_error_breaks(S, response_id, line) ==
    LET R == [S EXCEPT !.pending_prompt_request_ids = @ \ {response_id}]
    IN  IF line.error
        THEN [emit(R, "agent-error") EXCEPT !.brk = "loop"]
        ELSE emit_task_finish(R, unwrap_or(as_str(line.stopReason), "completed"))

on_prompt_response(S, response_id, line) ==
    LET R == [S EXCEPT !.pending_prompt_request_ids = @ \ {response_id}]
    IN  IF line.error
        THEN emit(R, "agent-error")
        ELSE emit_task_finish(R, unwrap_or(as_str(line.stopReason), "completed"))

\* str::trim, on a string given as the sequence of its characters, and
\* to_string back to a string.
Whitespace == {" "}

RECURSIVE trim_start(_)
trim_start(s) ==
    IF s # <<>> /\ Head(s) \in Whitespace THEN trim_start(Tail(s)) ELSE s

RECURSIVE trim_end(_)
trim_end(s) ==
    IF s # <<>> /\ s[Len(s)] \in Whitespace
    THEN trim_end(SubSeq(s, 1, Len(s) - 1))
    ELSE s

trim(s) == trim_end(trim_start(s))

RECURSIVE to_string(_)
to_string(s) == IF s = <<>> THEN "" ELSE Head(s) \o to_string(Tail(s))

\* The model-registry event of the session/set_model response.
emit_model_registry(S, current_model) ==
    [emit(S, "model-registry") EXCEPT !.current_models = Append(@, current_model)]

\* The set_model handler without `.filter(|value| !value.is_empty())`.
on_set_model_response_no_filter(S, response_id, line) ==
    LET entry == S.pending_set_model_requests[response_id]
        R == [S EXCEPT !.pending_set_model_requests = map_remove(@, response_id)]
    IN  IF line.error
        THEN respond(R, entry.response, FALSE, "session/set_model failed")
        ELSE LET current_model ==
                     IF line.currentModelId = <<>> THEN entry.model
                     ELSE to_string(trim(line.currentModelId[1]))
             IN  respond(emit_model_registry(R, current_model),
                         entry.response, TRUE, current_model)

\* line.currentModelId is result.currentModelId as Option<&str>: <<>> when
\* it is absent or no string, else <<its characters>>.
\* The set_model response handler that leaves the entry in the map.
on_set_model_response_keeps_entry(S, response_id, line) ==
    LET entry == S.pending_set_model_requests[response_id]
    IN  IF line.error
        THEN respond(S, entry.response, FALSE, "session/set_model failed")
        ELSE LET trimmed == IF line.currentModelId = <<>> THEN <<>>
                            ELSE trim(line.currentModelId[1])
                 current_model == IF trimmed # <<>> THEN to_string(trimmed)
                                  ELSE entry.model
             IN  respond(emit_model_registry(S, current_model),
                         entry.response, TRUE, current_model)

on_set_model_response(S, response_id, line) ==
    LET entry == S.pending_set_model_requests[response_id]
        R == [S EXCEPT !.pending_set_model_requests = map_remove(@, response_id)]
    IN  IF line.error
        THEN respond(R, entry.response, FALSE, "session/set_model failed")
        ELSE LET trimmed == IF line.currentModelId = <<>> THEN <<>>
                            ELSE trim(line.currentModelId[1])
                 current_model == IF trimmed # <<>> THEN to_string(trimmed)
                                  ELSE entry.model
             IN  respond(emit_model_registry(R, current_model),
                         entry.response, TRUE, current_model)

\* One iteration of `for line in message_text.lines()`.
\* handle_session_update without the tool_call arm.
handle_session_update_drops_tool_calls(S, update) ==
    CASE update \in {"agent_message_chunk", "agent_thought_chunk"} ->
            emit(S, "stream-message")
      [] OTHER -> S

\* router::handle_session_update
handle_session_update(S, update) ==
    CASE update \in {"agent_message_chunk", "agent_thought_chunk"} ->
            emit(S, "stream-message")
      [] update \in {"tool_call", "tool_call_update"} ->
            emit(S, "tool-call")
      [] OTHER -> S

\* fn emit_command_registry_from_update: emit_command_registry_payload emits
\* when the update (or its content) lists a command or an MCP server.
emit_command_registry_from_update(S, update) ==
    IF update = "available_commands_update" THEN emit(S, "command-registry") ELSE S

handle_line(S, line) ==
    LET id == parse_rpc_id(line)
    IN  IF line.kind = "text" THEN S
        ELSE IF line.method # NoMethod
        THEN IF line.method = "session/update"
             THEN IF line.update # "absent"
                  THEN emit_command_registry_from_update(
                           handle_session_update(S, line.update), line.update)
                  ELSE S
             ELSE IF id # None
             THEN handle_server_request(S, id, line.method, line)
             ELSE S
        ELSE IF id = None THEN S
        ELSE IF S.initialize_request_id = id THEN on_initialize_response(S, line)
        ELSE IF S.session_load_request_id = id THEN on_session_load_response(S, line)
        ELSE IF S.session_new_request_id = id THEN on_session_new_response(S, line)
        ELSE IF id \in S.pending_prompt_request_ids
        THEN on_prompt_response(S, id, line)
        ELSE IF id \in DOMAIN S.pending_set_model_requests
        THEN on_set_model_response(S, id, line)
        ELSE S

(***************************************************************************)
(* The inbound lines: text that is no JSON (blank, a // comment, a parse   *)
(* failure), JSON with a "method" (a request with an id, a notification    *)
(* without), and JSON without one (a response: its id, whether it has an   *)
(* "error" member, the string result.sessionId if any, and                 *)
(* result.currentModelId).  path and content say whether params.path and   *)
(* params.content are strings.                                             *)
(***************************************************************************)
Line(kind, method, id) ==
    [kind |-> kind, method |-> method, id |-> id, error |-> FALSE, sessionId |-> None,
     currentModelId |-> <<>>, stopReason |-> NoValue, update |-> "absent",
     path |-> FALSE, content |-> FALSE]

\* params.update of a session/update: absent, a text chunk, a thought chunk,
\* a tool call, an echo of the user's message, or an update of a type the
\* router does not handle that lists one named command in availableCommands.
Updates ==
    {"absent", "agent_message_chunk", "agent_thought_chunk", "tool_call",
     "user_message_chunk", "available_commands_update"}

\* The notifications: session/update, with and without an id, and a method
\* the adapter does not know.
NotificationLines ==
    {[Line("json", "session/update", id) EXCEPT !.update = u] :
        id \in {NoId, IntId(1)}, u \in Updates}
        \cup {Line("json", "x/unknown", NoId)}

ServerMethods ==
    {"session/request_permission", "fs/read_text_file", "fs/write_text_file",
     "_iflow/user/questions", "_iflow/plan/exit", "x/unknown"}

RequestLines ==
    {l \in [kind : {"json"}, method : ServerMethods,
            id : {IntId(1), FloatId(1), OtherId},
            error : {FALSE}, sessionId : {None}, currentModelId : {<<>>},
            stopReason : {NoValue}, update : {"absent"},
            path : BOOLEAN, content : BOOLEAN] :
        /\ l.path => l.method \in {"fs/read_text_file", "fs/write_text_file"}
        /\ l.content => l.method = "fs/write_text_file"
        /\ l.id.kind # "int" => l.method = "session/request_permission"}

\* The line makes handle_server_request call tokio::fs.
UsesFs(line) ==
    /\ line.kind = "json" /\ parse_rpc_id(line) # None
    /\ \/ line.method = "fs/read_text_file" /\ line.path
       \/ line.method = "fs/write_text_file" /\ line.path /\ line.content

\* result.currentModelId: absent, blank, or a model id with blanks around it.
CurrentModelIds == {<<>>, << <<" ">> >>, << <<" ", "m", "2", " ">> >>}

\* The agent issues a session id it has not issued before.
IssuedSessionIds == {connects}

\* The ids a response may carry: those a handler is waiting for, and one no
\* handler is waiting for (an id that was never allocated while initialize is
\* outstanding, the id of initialize once it was answered).
PendingIds ==
    ({initialize_request_id, session_load_request_id, session_new_request_id} \ {None})
        \cup pending_prompt_request_ids \cup DOMAIN pending_set_model_requests

ResponseIds ==
    PendingIds \cup (IF initialize_request_id # None THEN {rpc_id_counter} ELSE {1})

TextLines == {Line("text", NoMethod, NoId)}

ResponseRawIds == {NoId, OtherId, FloatId(1)} \cup {IntId(n) : n \in ResponseIds}

ResponseLines ==
    {l \in [kind : {"json"}, method : {NoMethod}, id : ResponseRawIds,
            error : BOOLEAN, sessionId : {None} \cup IssuedSessionIds,
            currentModelId : CurrentModelIds, stopReason : {NoValue},
            update : {"absent"}, path : {FALSE}, content : {FALSE}] :
        /\ l.error => (l.sessionId = None /\ l.id.kind = "int")
        /\ l.sessionId # None =>
               parse_rpc_id(l) \in {session_load_request_id, session_new_request_id}
        /\ l.currentModelId # <<>> =>
               (~l.error /\ parse_rpc_id(l) \in DOMAIN pending_set_model_requests)}

\* result.stopReason of a prompt response: a string, or a value that is not a
\* string (ResponseLines have the responses without stopReason).
StopReasons == {Str("end_turn"), Str("max_tokens"), NonStr}

StopLines ==
    {[Line("json", NoMethod, IntId(n)) EXCEPT !.stopReason = r] :
        n \in pending_prompt_request_ids, r \in StopReasons}

\* The lines of the handshake and the session; RequestLines are the requests
\* of the agent, NotificationLines its notifications.
Lines == TextLines \cup ResponseLines

\* The outstanding request a response line answers, if any: its method.
Answers(line) ==
    LET id == parse_rpc_id(line)
    IN  IF line.kind # "json" \/ line.method # NoMethod \/ id = None THEN NoMethod
        ELSE IF id = initialize_request_id THEN "initialize"
        ELSE IF id = session_load_request_id THEN "session/load"
        ELSE IF id = session_new_request_id THEN "session/new"
        ELSE IF id \in pending_prompt_request_ids THEN "session/prompt"
        ELSE IF id \in DOMAIN pending_set_model_requests THEN "session/set_model"
        ELSE NoMethod

\* A line with a method other than session/update and with an "id" member is a
\* request of the agent; a line without a method whose id is that of an
\* outstanding request is its response, and one whose id is that of none is
\* unmatched.
LineStep(line) ==
    IF line.kind = "json" /\ line.method # NoMethod /\ line.method # "session/update"
       /\ line.id.kind # "absent"
    THEN [Step("Request") EXCEPT !.to = line.method, !.id = parse_rpc_id(line),
                                 !.raw = line.id.kind, !.path = line.path,
                                 !.content = line.content]
    ELSE IF line.kind = "json" /\ line.method # NoMethod
    THEN [Step("Notification") EXCEPT !.to = line.method, !.id = parse_rpc_id(line),
                                      !.raw = line.id.kind, !.update = line.update]
    ELSE IF Answers(line) # NoMethod
    THEN [Step("Response") EXCEPT
              !.to = Answers(line), !.error = line.error, !.id = parse_rpc_id(line),
              !.sessionId = IF Answers(line) = "session/new" THEN line.sessionId
                            ELSE None,
              !.currentModelId = IF Answers(line) = "session/set_model"
                                 THEN line.currentModelId ELSE <<>>,
              !.stopReason = IF Answers(line) = "session/prompt" /\ ~line.error
                             THEN line.stopReason ELSE NoValue]
    ELSE IF line.kind = "json" /\ line.method = NoMethod /\ parse_rpc_id(line) # None
    THEN [Step("Unmatched") EXCEPT !.id = parse_rpc_id(line)]
    ELSE Step("Ignored")

\* The step is the arrival of a successful session/load or session/new response.
Establishes(step) ==
    /\ step.op = "Response"
    /\ ~step.error
    /\ \/ step.to = "session/load"
       \/ step.to = "session/new" /\ step.sessionId # None

\* The input f says which send_message call of the step fails (0: none); T is
\* the step's outcome under f, so the f-th call was made.
FailAt(f, T) == f <= Len(T.sends)

(***************************************************************************)
(* The step's effect on the variables.  A `break` of the select loop ends  *)
(* the connection and drops its state; the outer loop then connects again  *)
(* (retry_count is 0 on a connection).                                     *)
(***************************************************************************)
SentPrompts(T) ==
    LET ok == SelectSeq(T.sends, LAMBDA m : m.method = "session/prompt" /\ m.ok)
    IN  [i \in 1 .. Len(ok) |-> ok[i].prompt]

DropConnection ==
    /\ rpc_id_counter' = 1
    /\ initialize_request_id' = None
    /\ session_new_request_id' = None
    /\ session_load_request_id' = None
    /\ session_id' = None
    /\ pending_prompt_request_ids' = {}
    /\ pending_set_model_requests' = EmptyMap
    /\ in_frame' = FALSE
    /\ outbox' = <<>>
    /\ first_request' = NoMethod
    /\ allocated' = <<>>
    /\ established' = FALSE

Commit(T, step, left) ==
    /\ cached_session_id' = T.cached_session_id
    /\ queued_prompts' = T.queued_prompts
    /\ sends' = T.sends
    /\ emits' = T.emits
    /\ current_models' = T.current_models
    /\ finish_reasons' = T.finish_reasons
    /\ fs_calls' = T.fs_calls
    /\ replies' = T.replies
    /\ last' = step
    /\ sent_prompts' = sent_prompts \o SentPrompts(T)
    /\ IF T.brk = "loop"
       THEN /\ pc' = "connecting"
            /\ DropConnection
       ELSE /\ pc' = "connected"
            /\ rpc_id_counter' = T.rpc_id_counter
            /\ initialize_request_id' = T.initialize_request_id
            /\ session_new_request_id' = T.session_new_request_id
            /\ session_load_request_id' = T.session_load_request_id
            /\ session_id' = T.session_id
            /\ pending_prompt_request_ids' = T.pending_prompt_request_ids
            /\ pending_set_model_requests' = T.pending_set_model_requests
            /\ in_frame' = IF T.brk = "for" THEN FALSE ELSE left
            /\ outbox' = T.outbox
            /\ first_request' = T.first_request
            /\ allocated' = T.allocated
            /\ established' = (established \/ Establishes(step))
    /\ UNCHANGED <<retry_count, connects, consecutive_failures, sleeps>>

(***************************************************************************)
(* The outer retry loop.                                                   *)
(***************************************************************************)
\* The listener task as message_listener_task starts it.
ListenerInit ==
    /\ pc = "connecting"
    /\ retry_count = 0
    /\ cached_session_id = None
    /\ queued_prompts = <<>>
    /\ rpc_id_counter = 1
    /\ initialize_request_id = None
    /\ session_new_request_id = None
    /\ session_load_request_id = None
    /\ session_id = None
    /\ pending_prompt_request_ids = {}
    /\ pending_set_model_requests = EmptyMap
    /\ in_frame = FALSE
    /\ outbox = <<>>
    /\ first_request = NoMethod
    /\ established = FALSE
    /\ allocated = <<>>
    /\ sends = <<>>
    /\ emits = <<>>
    /\ current_models = <<>>
    /\ finish_reasons = <<>>
    /\ fs_calls = <<>>
    /\ replies = <<>>
    /\ last = Step("Start")
    /\ connects = 0
    /\ commands_submitted = 0
    /\ channel_closed = FALSE
    /\ sent_prompts = <<>>
    /\ queued_no_session = {}
    /\ consecutive_failures = 0
    /\ sleeps = 0

\* No command of the application runs and no function is applied.
NoSwitch ==
    /\ agents = {} /\ processes = {} /\ senders = {}
    /\ channel = 0 /\ rx = "none"
    /\ listener = "none" /\ listener_retries = 0
    /\ switch_pc = "idle" /\ target_model = ""
    /\ outcome = "none" /\ returned = "none" /\ spawned_model = ""

NoCall == input = <<>> /\ output = <<>>

\* No session store file, nobody holds the storage lock.
NoStore ==
    /\ file = [exists |-> FALSE, bytes |-> <<>>]
    /\ storage_lock = 0
    /\ written = <<>>
    /\ calls = <<>>

Init == ListenerInit /\ NoSwitch /\ NoCall /\ NoStore

\* The state of a new connection (lines 492-503), before initialize is sent.
\* The per-connection state with an id counter that starts at 2.
NewConnection_counter_from_two(f) ==
    [State(f) EXCEPT !.rpc_id_counter = 2,
                     !.initialize_request_id = None,
                     !.session_new_request_id = None,
                     !.session_load_request_id = None,
                     !.session_id = cached_session_id,
                     !.pending_prompt_request_ids = {},
                     !.pending_set_model_requests = EmptyMap,
                     !.outbox = <<>>,
                     !.first_request = NoMethod,
                     !.allocated = <<>>]

NewConnection(f) ==
    [State(f) EXCEPT !.rpc_id_counter = 1,
                     !.initialize_request_id = None,
                     !.session_new_request_id = None,
                     !.session_load_request_id = None,
                     !.session_id = cached_session_id,
                     !.pending_prompt_request_ids = {},
                     !.pending_set_model_requests = EmptyMap,
                     !.outbox = <<>>,
                     !.first_request = NoMethod,
                     !.allocated = <<>>]

\* The counter without the reset of line 492.
retry_count_never_reset(ok, count) == IF ok THEN count ELSE count + 1

\* retry_count after AcpConnection::connect returned (lines 492 and 859).
retry_count_after_connect(ok, count) == IF ok THEN 0 ELSE count + 1

\* The test of line 861 with > for >=.
retries_exhausted_off_by_one(count) == count > max_retries

\* The test that ends the retry loop after a failed connect (line 861).
retries_exhausted(count) == count >= max_retries

\* AcpConnection::connect returns Ok: reset the counter and send initialize.
ConnectOk(f) ==
    /\ pc = "connecting"
    /\ connects < MaxConnects
    /\ LET A == next_rpc_id(NewConnection(f))
           T == send_message(A, "initialize", A.id, None, None, "")
       IN  /\ retry_count' = retry_count_after_connect(TRUE, retry_count)
           /\ sends' = T.sends
           /\ emits' = <<>>
           /\ current_models' = <<>>
           /\ finish_reasons' = <<>>
           /\ fs_calls' = <<>>
           /\ replies' = <<>>
           /\ IF ~send_ok(T)
              THEN /\ pc' = "stopped"
                   /\ DropConnection
              ELSE /\ pc' = "connected"
                   /\ rpc_id_counter' = T.rpc_id_counter
                   /\ initialize_request_id' = A.id
                   /\ session_new_request_id' = T.session_new_request_id
                   /\ session_load_request_id' = T.session_load_request_id
                   /\ session_id' = T.session_id
                   /\ pending_prompt_request_ids' = T.pending_prompt_request_ids
                   /\ pending_set_model_requests' = T.pending_set_model_requests
                   /\ in_frame' = FALSE
                   /\ outbox' = T.outbox
                   /\ first_request' = T.first_request
                   /\ allocated' = T.allocated
                   /\ established' = FALSE
    /\ last' = Step("ConnectOk")
    /\ connects' = connects + 1
    /\ consecutive_failures' = 0
    /\ sleeps' = 0
    /\ UNCHANGED <<cached_session_id, queued_prompts, ownerVars, sent_prompts,
                   queued_no_session>>
    /\ UNCHANGED otherVars

\* AcpConnection::connect returns Err.
ConnectFail ==
    /\ pc = "connecting"
    /\ retry_count' = retry_count_after_connect(FALSE, retry_count)
    /\ IF retries_exhausted(retry_count')
       THEN /\ emits' = <<"agent-error">>
            /\ pc' = "stopped"
            /\ sleeps' = sleeps
       ELSE /\ emits' = <<>>
            /\ pc' = "sleeping"
            /\ sleeps' = sleeps + 1
    /\ current_models' = <<>>
    /\ finish_reasons' = <<>>
    /\ fs_calls' = <<>>
    /\ replies' = <<>>
    /\ sends' = <<>>
    /\ last' = Step("ConnectFail")
    /\ consecutive_failures' = consecutive_failures + 1
    /\ UNCHANGED <<cached_session_id, queued_prompts, connVars, ownerVars, connects,
                   sent_prompts, queued_no_session>>
    /\ UNCHANGED otherVars

\* tokio::time::sleep(2 s) is over; the while condition holds (retry_count < 5).
Wake ==
    /\ pc = "sleeping"
    /\ pc' = IF retry_count < max_retries THEN "connecting" ELSE "stopped"
    /\ emits' = <<>>
    /\ current_models' = <<>>
    /\ finish_reasons' = <<>>
    /\ fs_calls' = <<>>
    /\ replies' = <<>>
    /\ sends' = <<>>
    /\ last' = Step("Wake")
    /\ UNCHANGED <<retry_count, cached_session_id, queued_prompts, connVars, ownerVars,
                   histVars>>
    /\ UNCHANGED otherVars

(***************************************************************************)
(* The select loop: the command channel.                                   *)
(***************************************************************************)
RecvUserPrompt(f) ==
    /\ pc = "connected" /\ ~in_frame
    /\ ~channel_closed
    /\ commands_submitted < MaxCommands
    /\ LET prompt == commands_submitted + 1
           T == UserPrompt(State(f), prompt)
       IN  /\ FailAt(f, T)
           /\ Commit(T, Step("UserPrompt"), FALSE)
           /\ queued_no_session' = IF T.queued_prompts = Append(queued_prompts, prompt)
                                    THEN queued_no_session \cup {prompt}
                                    ELSE queued_no_session
    /\ commands_submitted' = commands_submitted + 1
    /\ UNCHANGED channel_closed
    /\ UNCHANGED otherVars

RecvCancelPrompt(f) ==
    /\ pc = "connected" /\ ~in_frame
    /\ ~channel_closed
    /\ commands_submitted < MaxCommands
    /\ LET T == CancelPrompt(State(f))
       IN  /\ FailAt(f, T)
           /\ Commit(T, Step("CancelPrompt"), FALSE)
    /\ commands_submitted' = commands_submitted + 1
    /\ UNCHANGED <<channel_closed, queued_no_session>>
    /\ UNCHANGED otherVars

RecvSetModel(model, f) ==
    /\ pc = "connected" /\ ~in_frame
    /\ ~channel_closed
    /\ commands_submitted < MaxCommands
    /\ LET T == SetModel(State(f), model, commands_submitted + 1)
       IN  /\ FailAt(f, T)
           /\ Commit(T, Step("SetModel"), FALSE)
    /\ commands_submitted' = commands_submitted + 1
    /\ UNCHANGED <<channel_closed, queued_no_session>>
    /\ UNCHANGED otherVars

\* The owner drops the sender of the command channel, every command it sent
\* having been received: from now on message_rx.recv() returns None.  The task
\* is not told; it finds out when the select loop polls the channel.
CloseChannel ==
    /\ ~channel_closed
    /\ pc # "stopped"
    /\ channel_closed' = TRUE
    /\ UNCHANGED <<taskVars, connVars, stepVars, commands_submitted, histVars>>
    /\ UNCHANGED otherVars

\* message_rx.recv() returns None, the owner having dropped the sender (before
\* this poll of the channel, or some time ago): return from the task.
RecvChannelClosed ==
    /\ pc = "connected" /\ ~in_frame
    /\ channel_closed' = TRUE
    /\ pc' = "stopped"
    /\ DropConnection
    /\ emits' = <<>>
    /\ current_models' = <<>>
    /\ finish_reasons' = <<>>
    /\ fs_calls' = <<>>
    /\ replies' = <<>>
    /\ sends' = <<>>
    /\ last' = Step("ChannelClosed")
    /\ UNCHANGED <<retry_count, cached_session_id, queued_prompts, commands_submitted,
                   histVars>>
    /\ UNCHANGED otherVars

(***************************************************************************)
(* The select loop: the socket.                                            *)
(***************************************************************************)
\* A text frame arrives and its first line is handled; more says whether the
\* frame has a line after it.
RecvFrame(line, more, f, io) ==
    /\ pc = "connected" /\ ~in_frame
    /\ ~io => UsesFs(line)
    /\ f > 0 => LineStep(line).op \in {"Request", "Response"}
    /\ LET T == handle_line([State(f) EXCEPT !.io_ok = io], line)
       IN  /\ FailAt(f, T)
           /\ Commit(T, [LineStep(line) EXCEPT !.io_ok = io, !.more = more], more)
    /\ UNCHANGED <<ownerVars, queued_no_session>>
    /\ UNCHANGED otherVars

\* The per-line loop goes on to the next line of the frame.
NextLine(line, more, f, io) ==
    /\ pc = "connected" /\ in_frame
    /\ ~io => UsesFs(line)
    /\ f > 0 => LineStep(line).op \in {"Request", "Response"}
    /\ LET T == handle_line([State(f) EXCEPT !.io_ok = io], line)
       IN  /\ FailAt(f, T)
           /\ Commit(T, [LineStep(line) EXCEPT !.io_ok = io, !.more = more], more)
    /\ UNCHANGED <<ownerVars, queued_no_session>>
    /\ UNCHANGED otherVars

\* receive_message returns an empty message (timeout, Ping, Pong): continue.
RecvIdle ==
    /\ pc = "connected" /\ ~in_frame
    /\ emits' = <<>>
    /\ current_models' = <<>>
    /\ finish_reasons' = <<>>
    /\ fs_calls' = <<>>
    /\ replies' = <<>>
    /\ sends' = <<>>
    /\ last' = Step("Idle")
    /\ UNCHANGED <<taskVars, connVars, ownerVars, histVars>>
    /\ UNCHANGED otherVars

\* receive_message returns Ok(None) or Err: break out of the select loop.
RecvClosed ==
    /\ pc = "connected" /\ ~in_frame
    /\ pc' = "connecting"
    /\ DropConnection
    /\ emits' = <<>>
    /\ current_models' = <<>>
    /\ finish_reasons' = <<>>
    /\ fs_calls' = <<>>
    /\ replies' = <<>>
    /\ sends' = <<>>
    /\ last' = Step("Closed")
    /\ UNCHANGED <<retry_count, cached_session_id, queued_prompts, ownerVars, histVars>>
    /\ UNCHANGED otherVars

\* Frames of one line; the owner closes the channel while the select loop
\* waits on it.
Next ==
    \/ \E f \in 0 .. 1 : ConnectOk(f)
    \/ ConnectFail
    \/ Wake
    \/ \E f \in 0 .. 1 : RecvUserPrompt(f)
    \/ \E f \in 0 .. 1 : RecvCancelPrompt(f)
    \/ \E model \in Models, f \in 0 .. 1 : RecvSetModel(model, f)
    \/ RecvChannelClosed
    \/ \E line \in Lines, f \in 0 .. MaxCommands : RecvFrame(line, FALSE, f, TRUE)
    \/ RecvIdle
    \/ RecvClosed

Spec == Init /\ [][Next]_vars

\* Frames of any number of lines.
NextFrames ==
    \/ Next
    \/ \E line \in Lines, f \in 0 .. MaxCommands : RecvFrame(line, TRUE, f, TRUE)
    \/ \E line \in Lines, more \in BOOLEAN, f \in 0 .. MaxCommands :
           NextLine(line, more, f, TRUE)

SpecFrames == Init /\ [][NextFrames]_vars

\* The owner closes the channel at any time.
NextClose ==
    \/ Next
    \/ CloseChannel

SpecClose == Init /\ [][NextClose]_vars

\* Frames of one line, with every request of the agent.
NextRequests ==
    \/ Next
    \/ \E line \in RequestLines, f \in 0 .. 1, io \in BOOLEAN :
           RecvFrame(line, FALSE, f, io)

SpecRequests == Init /\ [][NextRequests]_vars

\* Frames of one line, with every stopReason of a prompt result.
NextStop ==
    \/ Next
    \/ \E line \in StopLines : RecvFrame(line, FALSE, 0, TRUE)

SpecStop == Init /\ [][NextStop]_vars

\* Frames of one line, with every notification of the agent.
NextNotifications ==
    \/ Next
    \/ \E line \in NotificationLines : RecvFrame(line, FALSE, 0, TRUE)

SpecNotifications == Init /\ [][NextNotifications]_vars

(***************************************************************************)
(* AcpConnection::receive_message (lines 37-51): what the 30-second        *)
(* timeout and the frames that carry no lines give the select loop.  A     *)
(* Text or Binary frame with lines is a RecvFrame.                         *)
(***************************************************************************)
WsEvents ==
    {"Timeout", "Ping", "Pong", "EmptyText", "Close", "EndOfStream", "Frame",
     "InvalidUtf8", "WebSocketError"}

\* receive_message where the timeout is an error.
receive_message_timeout_is_error(event) ==
    CASE event \in {"Ping", "Pong", "EmptyText"} -> "Ok(Some(empty))"
      [] event \in {"Timeout", "InvalidUtf8", "WebSocketError"} -> "Err"
      [] OTHER -> "Ok(None)"

receive_message(event) ==
    CASE event \in {"Timeout", "Ping", "Pong", "EmptyText"} -> "Ok(Some(empty))"
      [] event \in {"InvalidUtf8", "WebSocketError"} -> "Err"
      [] OTHER -> "Ok(None)"

\* The select loop takes the result of receive_message: an empty message is
\* skipped with `continue` (lines 588-590), Ok(None) and Err leave the loop
\* (lines 845-852).  last.to holds the event.
RecvMessage(event) ==
    /\ pc = "connected" /\ ~in_frame
    /\ emits' = <<>>
    /\ current_models' = <<>>
    /\ finish_reasons' = <<>>
    /\ fs_calls' = <<>>
    /\ replies' = <<>>
    /\ sends' = <<>>
    /\ IF receive_message(event) = "Ok(Some(empty))"
       THEN /\ last' = [Step("Idle") EXCEPT !.to = event]
            /\ UNCHANGED <<taskVars, connVars>>
       ELSE /\ last' = [Step("Closed") EXCEPT !.to = event]
            /\ pc' = "connecting"
            /\ DropConnection
            /\ UNCHANGED <<retry_count, cached_session_id, queued_prompts>>
    /\ UNCHANGED <<ownerVars, histVars>>
    /\ UNCHANGED otherVars

\* Every outcome of receive_message.
NextSocket ==
    \/ Next
    \/ \E event \in WsEvents : RecvMessage(event)

SpecSocket == Init /\ [][NextSocket]_vars

(***************************************************************************)
(* The handshake with an agent that answers: no send_message call fails,   *)
(* initialize and session/new are answered with a result, the result of    *)
(* session/new holding a session id, and session/load with a result or an  *)
(* error.  The answer to an outstanding handshake request arrives unless   *)
(* the connection ends before (weak fairness of AnswerHandshake).          *)
(***************************************************************************)
AnsweringLines ==
    {l \in Lines :
        /\ Answers(l) \in {"initialize", "session/new"} => ~l.error
        /\ Answers(l) = "session/new" => l.sessionId # None}

HandshakeAnswers == {l \in AnsweringLines : Answers(l) \in HandshakeMethods}

AnswerHandshake == \E line \in HandshakeAnswers : RecvFrame(line, FALSE, 0, TRUE)

NextHandshake ==
    \/ ConnectOk(0)
    \/ ConnectFail
    \/ Wake
    \/ RecvUserPrompt(0)
    \/ RecvCancelPrompt(0)
    \/ \E model \in Models : RecvSetModel(model, 0)
    \/ RecvChannelClosed
    \/ \E line \in AnsweringLines : RecvFrame(line, FALSE, 0, TRUE)
    \/ RecvIdle
    \/ RecvClosed

SpecHandshake == Init /\ [][NextHandshake]_vars /\ WF_vars(AnswerHandshake)

(***************************************************************************)
(* switch_agent_model (commands.rs) and the tasks it runs beside: the      *)
(* listener of the registered instance, seen through the channel and the   *)
(* oneshot reply, and disconnect_agent.  Instance 1 is the one registered  *)
(* at the start, instance 2 the one spawn_iflow_agent registers.  rx is    *)
(* the reply: "sent" with the command in the channel, "pending" in the     *)
(* listener's pending_set_model_requests, "ok" or "err" once resolved,     *)
(* "closed" once the responder is dropped, "dropped" once the caller gave  *)
(* up.                                                                     *)
(***************************************************************************)
mainVars == <<taskVars, connVars, stepVars, ownerVars, histVars>>

\* The model argument, as the sequence of its characters.
SwitchModels == {<<" ">>, <<" ", "m", "2">>}

InitSwitch ==
    /\ ListenerInit /\ NoCall /\ NoStore
    /\ channel = 0 /\ rx = "none" /\ listener_retries = 0
    /\ switch_pc = "idle" /\ target_model = ""
    /\ outcome = "none" /\ returned = "none" /\ spawned_model = ""
    /\ \/ agents = {} /\ processes = {} /\ senders = {} /\ listener = "none"
       \/ agents = {1} /\ processes = {1} /\ senders = {"instance"}
            /\ listener = "connecting"

\* let target_model = model.trim(); an empty name is refused.
SwitchTrim(model) ==
    /\ switch_pc = "idle"
    /\ target_model' = to_string(trim(model))
    /\ IF target_model' = ""
       THEN switch_pc' = "done" /\ returned' = "Err: Model name cannot be empty"
       ELSE switch_pc' = "sender_of" /\ returned' = returned
    /\ UNCHANGED <<agents, processes, senders, channel, rx, listener, listener_retries,
                   outcome, spawned_model, mainVars, callVars, storeVars>>

\* agent_manager.sender_of: a clone of the instance's sender.
SwitchSenderOf ==
    /\ switch_pc = "sender_of"
    /\ IF agents # {}
       THEN /\ senders' = senders \cup {"switch"}
            /\ switch_pc' = "send"
            /\ outcome' = outcome
       ELSE /\ senders' = senders
            /\ switch_pc' = "remove"
            /\ outcome' = "absent"
    /\ UNCHANGED <<agents, processes, channel, rx, listener, listener_retries,
                   target_model, returned, spawned_model, mainVars, callVars, storeVars>>

\* sender.send(ListenerCommand::SetModel): fails once the receiver is gone.
SwitchSend ==
    /\ switch_pc = "send"
    /\ IF listener # "stopped"
       THEN /\ channel' = channel + 1
            /\ rx' = "sent"
            /\ switch_pc' = "wait"
            /\ UNCHANGED <<senders, outcome>>
       ELSE /\ senders' = senders \ {"switch"}
            /\ outcome' = "send_failed"
            /\ switch_pc' = "remove"
            /\ UNCHANGED <<channel, rx>>
    /\ UNCHANGED <<agents, processes, listener, listener_retries, target_model, returned,
                   spawned_model, mainVars, callVars, storeVars>>

\* timeout(20s, rx) returns the reply, or that the responder was dropped.
SwitchReply ==
    /\ switch_pc = "wait"
    /\ rx \in {"ok", "err", "closed"}
    /\ outcome' = "reply_" \o rx
    /\ IF rx = "ok"
       THEN switch_pc' = "port_of" /\ senders' = senders
       ELSE switch_pc' = "remove" /\ senders' = senders \ {"switch"}
    /\ UNCHANGED <<agents, processes, channel, rx, listener, listener_retries,
                   target_model, returned, spawned_model, mainVars, callVars, storeVars>>

\* timeout(20s, rx) elapses with no reply.
SwitchTimeout ==
    /\ switch_pc = "wait"
    /\ rx \in {"sent", "pending"}
    /\ rx' = "dropped"
    /\ outcome' = "timeout"
    /\ senders' = senders \ {"switch"}
    /\ switch_pc' = "remove"
    /\ UNCHANGED <<agents, processes, channel, listener, listener_retries, target_model,
                   returned, spawned_model, mainVars, callVars, storeVars>>

\* agent_manager.port_of(..).ok_or_else(..)? and the successful return.
SwitchPortOf ==
    /\ switch_pc = "port_of"
    /\ returned' = IF agents # {} THEN "Ok: success"
                   ELSE "Err: Agent port not available"
    /\ senders' = senders \ {"switch"}
    /\ switch_pc' = "done"
    /\ UNCHANGED <<agents, processes, channel, rx, listener, listener_retries,
                   target_model, outcome, spawned_model, mainVars, callVars, storeVars>>

\* agent_manager.remove and process.kill; the instance, with its sender, is
\* dropped.
SwitchRemove ==
    /\ switch_pc = "remove"
    /\ agents' = {}
    /\ processes' = processes \ agents
    /\ senders' = IF 1 \in agents THEN senders \ {"instance"} ELSE senders
    /\ switch_pc' = "spawn"
    /\ UNCHANGED <<channel, rx, listener, listener_retries, target_model, outcome,
                   returned, spawned_model, mainVars, callVars, storeVars>>

\* spawn_iflow_agent(.., Some(target_model)): it registers instance 2, or
\* fails to find a port or to start the process.
SwitchSpawn(ok) ==
    /\ switch_pc = "spawn"
    /\ spawned_model' = target_model
    /\ IF ok
       THEN /\ agents' = {2}
            /\ processes' = processes \cup {2}
            /\ returned' = "Ok: restarted"
       ELSE /\ UNCHANGED <<agents, processes>>
            /\ returned' = "Err: Failed to start iFlow"
    /\ switch_pc' = "done"
    /\ UNCHANGED <<senders, channel, rx, listener, listener_retries, target_model,
                   outcome, mainVars, callVars, storeVars>>

\* The disconnect_agent command, run by another task.
DisconnectAgent ==
    /\ agents # {}
    /\ agents' = {}
    /\ processes' = processes \ agents
    /\ senders' = IF 1 \in agents THEN senders \ {"instance"} ELSE senders
    /\ UNCHANGED <<channel, rx, listener, listener_retries, switch_pc, target_model,
                   outcome, returned, spawned_model, mainVars, callVars, storeVars>>

\* The listener connects to the process of instance 1 and resets retry_count.
ListenerConnectOk ==
    /\ listener = "connecting"
    /\ 1 \in processes
    /\ listener' = "handshake"
    /\ listener_retries' = 0
    /\ UNCHANGED <<agents, processes, senders, channel, rx, switch_pc, target_model,
                   outcome, returned, spawned_model, mainVars, callVars, storeVars>>

\* The connect fails; after max_retries failures the task ends and the
\* receiver, with the commands in the channel, is dropped.
ListenerConnectFail ==
    /\ listener = "connecting"
    /\ listener_retries' = listener_retries + 1
    /\ IF listener_retries' >= max_retries
       THEN /\ listener' = "stopped"
            /\ channel' = 0
            /\ rx' = IF rx = "sent" THEN "closed" ELSE rx
       ELSE UNCHANGED <<listener, channel, rx>>
    /\ UNCHANGED <<agents, processes, senders, switch_pc, target_model, outcome,
                   returned, spawned_model, mainVars, callVars, storeVars>>

\* The handshake ends with a session id.
ListenerReady ==
    /\ listener = "handshake"
    /\ 1 \in processes
    /\ listener' = "ready"
    /\ UNCHANGED <<agents, processes, senders, channel, rx, listener_retries, switch_pc,
                   target_model, outcome, returned, spawned_model, mainVars, callVars, storeVars>>

\* The SetModel arm of the select loop: "Session not ready" without a
\* session, else the request is sent and the responder kept, or the send
\* fails, the responder gets the error and the connection ends.
ListenerSetModel(ok) ==
    /\ listener \in {"handshake", "ready"}
    /\ channel > 0
    /\ channel' = channel - 1
    /\ IF listener = "ready" /\ ok
       THEN /\ rx' = IF rx = "sent" THEN "pending" ELSE rx
            /\ listener' = listener
       ELSE /\ rx' = IF rx = "sent" THEN "err" ELSE rx
            /\ listener' = IF listener = "ready" THEN "connecting" ELSE listener
    /\ UNCHANGED <<agents, processes, senders, listener_retries, switch_pc, target_model,
                   outcome, returned, spawned_model, mainVars, callVars, storeVars>>

\* The response to session/set_model resolves the responder.
ListenerSetModelResponse(ok) ==
    /\ listener = "ready"
    /\ rx = "pending"
    /\ 1 \in processes
    /\ rx' = IF ok THEN "ok" ELSE "err"
    /\ UNCHANGED <<agents, processes, senders, channel, listener, listener_retries,
                   switch_pc, target_model, outcome, returned, spawned_model, mainVars,
                   callVars, storeVars>>

\* The socket closes or fails: the connection's pending_set_model_requests
\* is dropped and the outer loop connects again.
ListenerSocketClosed ==
    /\ listener \in {"handshake", "ready"}
    /\ listener' = "connecting"
    /\ rx' = IF rx = "pending" THEN "closed" ELSE rx
    /\ UNCHANGED <<agents, processes, senders, channel, listener_retries, switch_pc,
                   target_model, outcome, returned, spawned_model, mainVars, callVars, storeVars>>

\* message_rx.recv() returns None: every sender is dropped and the channel
\* is empty.
ListenerChannelClosed ==
    /\ listener \in {"handshake", "ready"}
    /\ channel = 0
    /\ senders = {}
    /\ listener' = "stopped"
    /\ rx' = IF rx = "pending" THEN "closed" ELSE rx
    /\ UNCHANGED <<agents, processes, senders, channel, listener_retries, switch_pc,
                   target_model, outcome, returned, spawned_model, mainVars, callVars, storeVars>>

NextSwitch ==
    \/ \E model \in SwitchModels : SwitchTrim(model)
    \/ SwitchSenderOf
    \/ SwitchSend
    \/ SwitchReply
    \/ SwitchTimeout
    \/ SwitchPortOf
    \/ SwitchRemove
    \/ \E ok \in BOOLEAN : SwitchSpawn(ok)
    \/ DisconnectAgent
    \/ ListenerConnectOk
    \/ ListenerConnectFail
    \/ ListenerReady
    \/ \E ok \in BOOLEAN : ListenerSetModel(ok)
    \/ \E ok \in BOOLEAN : ListenerSetModelResponse(ok)
    \/ ListenerSocketClosed
    \/ ListenerChannelClosed

SpecSwitch == InitSwitch /\ [][NextSwitch]_vars

(***************************************************************************)
(* router::text_from_tool_contents.  A JSON value is given by the members  *)
(* the function reads: a content by its "type" and "text" and by its       *)
(* serialisation (Value::to_string), an entry by its "type", "content"     *)
(* and "path", the argument by whether it is an array and by its entries.  *)
(***************************************************************************)
\* router::text_from_content
text_from_content(content) ==
    LET content_type == as_str(content.type)
    IN  IF content_type = <<>> THEN <<>>
        ELSE IF content_type[1] = "text" THEN as_str(content.text)
        ELSE <<content.json>>

\* [String]::join
RECURSIVE join(_, _)
join(texts, sep) ==
    IF texts = <<>> THEN ""
    ELSE IF Len(texts) = 1 THEN texts[1]
    ELSE texts[1] \o sep \o join(Tail(texts), sep)

\* The `for item in items` loop of text_from_tool_contents, from entry i on.
RECURSIVE push_texts(_, _, _)
push_texts(items, i, texts) ==
    IF i > Len(items) THEN texts
    ELSE LET item == items[i]
             type == as_str(item.type)
             pushed ==
                 IF type = <<"content">>
                 THEN IF item.content # <<>>
                         /\ text_from_content(item.content[1]) # <<>>
                      THEN Append(texts, text_from_content(item.content[1])[1])
                      ELSE texts
                 ELSE IF type = <<"diff">>
                 THEN IF as_str(item.path) # <<>>
                      THEN Append(texts, "[diff] " \o as_str(item.path)[1])
                      ELSE texts
                 ELSE texts
         IN  push_texts(items, i + 1, pushed)

\* text_from_tool_contents joining the texts in reverse order.
text_from_tool_contents_reversed(contents) ==
    IF ~contents.array THEN <<>>
    ELSE LET texts == push_texts(contents.items, 1, <<>>)
             reversed == [i \in 1 .. Len(texts) |-> texts[Len(texts) + 1 - i]]
         IN  IF texts = <<>> THEN <<>> ELSE <<join(reversed, "\n")>>

\* router::text_from_tool_contents
text_from_tool_contents(contents) ==
    IF ~contents.array THEN <<>>
    ELSE LET texts == push_texts(contents.items, 1, <<>>)
         IN  IF texts = <<>> THEN <<>> ELSE <<join(texts, "\n")>>

\* The contents of a "content" entry: two texts, an image, a content with no
\* "type", a text content whose "text" is no string.
ToolContents ==
    {[type |-> Str("text"), text |-> Str("line1"), json |-> "{text line1}"],
     [type |-> Str("text"), text |-> Str("line2"), json |-> "{text line2}"],
     [type |-> Str("image"), text |-> NoValue, json |-> "{image}"],
     [type |-> NoValue, text |-> Str("line1"), json |-> "{line1}"],
     [type |-> Str("text"), text |-> NonStr, json |-> "{text 1}"]}

\* The entries: content entries, one without "content", diff entries with a
\* string path and with a path that is no string, an entry of another type,
\* an entry with no "type".
ToolItems ==
    {[type |-> Str("content"), content |-> <<c>>, path |-> NoValue] : c \in ToolContents}
        \cup {[type |-> Str("content"), content |-> <<>>, path |-> NoValue],
              [type |-> Str("diff"), content |-> <<>>, path |-> Str("src/x.ts")],
              [type |-> Str("diff"), content |-> <<>>, path |-> NonStr],
              [type |-> Str("terminal"), content |-> <<>>, path |-> Str("src/x.ts")],
              [type |-> NoValue, content |-> <<>>, path |-> NoValue]}

\* The sequences over a set of at most n entries.
SeqsUpTo(set, n) == UNION {[1 .. k -> set] : k \in 0 .. n}

\* The arguments: a value that is no array, and the arrays of entries.
ToolContentsArgs ==
    {[array |-> FALSE, items |-> <<>>]}
        \cup {[array |-> TRUE, items |-> items] : items \in SeqsUpTo(ToolItems, MaxItems)}

InitToolContents ==
    /\ ListenerInit /\ NoSwitch /\ NoStore
    /\ input \in ToolContentsArgs
    /\ output = <<>>

\* A call of text_from_tool_contents; output holds the Option it returns.
CallTextFromToolContents ==
    /\ output = <<>>
    /\ output' = <<text_from_tool_contents(input)>>
    /\ UNCHANGED <<input, mainVars, switchVars, storeVars>>

NextToolContents == CallTextFromToolContents

SpecToolContents == InitToolContents /\ [][NextToolContents]_vars

(***************************************************************************)
(* normalized_command_entries.  A payload is given by its                  *)
(* "availableCommands" member and by "_meta" with its "availableCommands"  *)
(* member; each is absent, a value that is no array, or an array of        *)
(* entries.  Of an entry the model keeps "name", a string being the        *)
(* sequence of its characters, and of a normalised entry its name.         *)
(***************************************************************************)
NoArray == [kind |-> "absent", items |-> <<>>]
NonArray == [kind |-> "other", items |-> <<>>]
Array(items) == [kind |-> "array", items |-> items]

\* Value::as_array
as_array(v) == IF v.kind = "array" THEN <<v.items>> ELSE <<>>

\* fn extract_registry_array
extract_registry_array(payload, key) ==
    IF as_array(payload[key]) # <<>> THEN as_array(payload[key])
    ELSE IF payload._meta # <<>> THEN as_array(payload._meta[1][key])
    ELSE <<>>

\* The closure of filter_map: None (<<>>) or the normalised name.
normalized_command_entry(entry) ==
    IF as_str(entry.name) = <<>> THEN <<>>
    ELSE LET raw_name == trim(as_str(entry.name)[1])
         IN  IF raw_name = <<>> THEN <<>>
             ELSE IF raw_name[1] = "/" THEN <<raw_name>>
             ELSE <<(<<"/">> \o raw_name)>>

\* Iterator::filter_map(..).collect(), from entry i on.
RECURSIVE filter_map(_, _)
filter_map(raw_entries, i) ==
    IF i > Len(raw_entries) THEN <<>>
    ELSE normalized_command_entry(raw_entries[i]) \o filter_map(raw_entries, i + 1)

\* normalized_command_entries reading availableCommands at the top level only.
normalized_command_entries_top_only(payload) ==
    IF as_array(payload["availableCommands"]) = <<>> THEN <<>>
    ELSE filter_map(as_array(payload["availableCommands"])[1], 1)

\* fn normalized_command_entries
normalized_command_entries(payload) ==
    LET raw_entries == extract_registry_array(payload, "availableCommands")
    IN  IF raw_entries = <<>> THEN <<>> ELSE filter_map(raw_entries[1], 1)

\* The "name" of an entry: absent, no string, empty, blank, and names with
\* and without a leading '/' and blanks around them.
CommandNames ==
    {NoValue, NonStr, Str(<<>>), Str(<<" ">>), Str(<<"x">>), Str(<<" ", "y", " ">>),
     Str(<<"/", "x">>), Str(<<" ", "/", "z">>)}

CommandEntries == {[name |-> n] : n \in CommandNames}

CommandArrays ==
    {NoArray, NonArray} \cup {Array(items) : items \in SeqsUpTo(CommandEntries, MaxItems)}

\* "_meta": absent, without availableCommands, or with an array of one entry.
CommandMetas ==
    {<<>>, <<[availableCommands |-> NoArray]>>,
     <<[availableCommands |-> Array(<<[name |-> Str(<<"h", "e", "l", "p">>)]>>)]>>}

CommandPayloads == [availableCommands : CommandArrays, _meta : CommandMetas]

InitCommandEntries ==
    /\ ListenerInit /\ NoSwitch /\ NoStore
    /\ input \in CommandPayloads
    /\ output = <<>>

\* A call of normalized_command_entries; output holds the Vec it returns.
CallNormalizedCommandEntries ==
    /\ output = <<>>
    /\ output' = <<normalized_command_entries(input)>>
    /\ UNCHANGED <<input, mainVars, switchVars, storeVars>>

NextCommandEntries == CallNormalizedCommandEntries

SpecCommandEntries == InitCommandEntries /\ [][NextCommandEntries]_vars

(***************************************************************************)
(* The session store (storage.rs).  A StorageSnapshot holds two HashMaps   *)
(* of Vecs; of a StoredSession and a StoredMessage the model keeps id and  *)
(* agent_id, the other String fields being serialised as id is.  The file  *)
(* is a sequence of chunks: the payload serde_json::to_vec produces takes  *)
(* two write calls, a chunk of it being the JSON document and the part,    *)
(* and a chunk may also be whitespace or the zero bytes of a hole.         *)
(***************************************************************************)
NoneString == [kind |-> "none", s |-> ""]
Null == [kind |-> "null", s |-> ""]

AgentIds == {"agent-a", "agent-b"}
SessionIds == {"session-1"}
StoredSessions == {[id |-> "session-1", agent_id |-> "agent-a"]}
StoredMessages ==
    {[id |-> "msg-1", agent_id |-> a] : a \in {Str("agent-a"), NoneString}}

\* The HashMaps with keys of a set and values of a set.
HashMaps(keys, values) == UNION {[d -> values] : d \in SUBSET keys}

StorageSnapshots ==
    [sessions_by_agent : HashMaps(AgentIds, SeqsUpTo(StoredSessions, MaxStored)),
     messages_by_session : HashMaps(SessionIds, SeqsUpTo(StoredMessages, MaxStored))]

\* StorageSnapshot::default().
StorageSnapshot_default == [sessions_by_agent |-> <<>>, messages_by_session |-> <<>>]

\* The orders in which a HashMap may iterate over its keys.
IterationOrders(m) ==
    {o \in [1 .. Cardinality(DOMAIN m) -> DOMAIN m] :
        \A i, j \in DOMAIN o : o[i] = o[j] => i = j}

\* Serialize, with rename_all = "camelCase": an Option is null or the string,
\* a HashMap an object whose members come in the iteration order.
serialize_session(session) == [id |-> session.id, agentId |-> Str(session.agent_id)]

serialize_message(message) ==
    [id |-> message.id,
     agentId |-> IF message.agent_id = NoneString THEN Null ELSE message.agent_id]

\* of names the type of the entries of the Vecs.
serialize_map(m, order, of) ==
    [i \in 1 .. Len(order) |->
        <<order[i], [j \in 1 .. Len(m[order[i]]) |->
                        IF of = "StoredSession" THEN serialize_session(m[order[i]][j])
                        ELSE serialize_message(m[order[i]][j])]>>]

to_vec(snapshot, sessions_order, messages_order) ==
    [sessionsByAgent |->
         serialize_map(snapshot.sessions_by_agent, sessions_order, "StoredSession"),
     messagesBySession |->
         serialize_map(snapshot.messages_by_session, messages_order, "StoredMessage")]

\* Deserialize: the members of an object are inserted into the HashMap one
\* after the other, so the last member with a key gives its value.
deserialize_session(object) == [id |-> object.id, agent_id |-> object.agentId.s]

deserialize_message(object) ==
    [id |-> object.id,
     agent_id |-> IF object.agentId = Null THEN NoneString ELSE object.agentId]

deserialize_map(members, of) ==
    [key \in {members[i][1] : i \in DOMAIN members} |->
        LET n == CHOOSE i \in DOMAIN members :
                     /\ members[i][1] = key
                     /\ \A j \in DOMAIN members : j > i => members[j][1] # key
        IN  [j \in 1 .. Len(members[n][2]) |->
                IF of = "StoredSession" THEN deserialize_session(members[n][2][j])
                ELSE deserialize_message(members[n][2][j])]]

Whitespace_chunk == [kind |-> "ws", doc |-> to_vec(StorageSnapshot_default, <<>>, <<>>),
                     part |-> 0]
Hole == [kind |-> "nul", doc |-> to_vec(StorageSnapshot_default, <<>>, <<>>), part |-> 0]
Payload(doc) == [part \in 1 .. 2 |-> [kind |-> "json", doc |-> doc, part |-> part]]

\* content.trim(): the chunks without the whitespace at both ends.
RECURSIVE trim_chunks_start(_)
trim_chunks_start(bytes) ==
    IF bytes # <<>> /\ bytes[1].kind = "ws" THEN trim_chunks_start(Tail(bytes)) ELSE bytes

RECURSIVE trim_chunks_end(_)
trim_chunks_end(bytes) ==
    IF bytes # <<>> /\ bytes[Len(bytes)].kind = "ws"
    THEN trim_chunks_end(SubSeq(bytes, 1, Len(bytes) - 1))
    ELSE bytes

trim_chunks(bytes) == trim_chunks_end(trim_chunks_start(bytes))

StorageOk(snapshot) == [ok |-> TRUE, snapshot |-> snapshot, err |-> ""]
StorageErr(err) == [ok |-> FALSE, snapshot |-> StorageSnapshot_default, err |-> err]

\* serde_json::from_str: whitespace around the document is skipped, anything
\* but one whole document is an error.
from_str(content) ==
    LET body == trim_chunks(content)
    IN  IF /\ Len(body) = 2
           /\ \A part \in 1 .. 2 : body[part].kind = "json" /\ body[part].part = part
           /\ body[1].doc = body[2].doc
        THEN StorageOk(
                 [sessions_by_agent |->
                      deserialize_map(body[1].doc.sessionsByAgent, "StoredSession"),
                  messages_by_session |->
                      deserialize_map(body[1].doc.messagesBySession, "StoredMessage")])
        ELSE StorageErr("Failed to parse session store")

\* read_snapshot_from_path without the test for a blank file.
read_snapshot_from_path_no_blank_check(f, io) ==
    IF ~f.exists THEN StorageOk(StorageSnapshot_default)
    ELSE IF ~io THEN StorageErr("Failed to read session store")
    ELSE from_str(f.bytes)

\* read_snapshot_from_path; io is FALSE when read_to_string fails with an
\* error other than NotFound.
read_snapshot_from_path(f, io) ==
    IF ~f.exists THEN StorageOk(StorageSnapshot_default)
    ELSE IF ~io THEN StorageErr("Failed to read session store")
    ELSE IF trim_chunks(f.bytes) = <<>> THEN StorageOk(StorageSnapshot_default)
    ELSE from_str(f.bytes)

\* fs::write: the file is created or truncated, then the payload is written;
\* each writer has its own offset.
open_truncate(f) == [exists |-> TRUE, bytes |-> <<>>]

write_chunk(f, chunk) ==
    [f EXCEPT !.bytes = [i \in 1 .. (IF chunk.part > Len(f.bytes) THEN chunk.part
                                      ELSE Len(f.bytes)) |->
                            IF i = chunk.part THEN chunk
                            ELSE IF i <= Len(f.bytes) THEN f.bytes[i]
                            ELSE Hole]]

WriteFailures == {"none", "create_dir_all", "open", "write 1", "write 2"}

\* write_snapshot_to_path; fail is the call that fails, if any.
write_snapshot_to_path(f, snapshot, sessions_order, messages_order, fail) ==
    LET payload == Payload(to_vec(snapshot, sessions_order, messages_order))
    IN  IF fail = "create_dir_all"
        THEN [file |-> f, result |-> StorageErr("Failed to create session store dir")]
        ELSE IF fail = "open"
        THEN [file |-> f, result |-> StorageErr("Failed to write session store")]
        ELSE IF fail = "write 1"
        THEN [file |-> open_truncate(f),
              result |-> StorageErr("Failed to write session store")]
        ELSE IF fail = "write 2"
        THEN [file |-> write_chunk(open_truncate(f), payload[1]),
              result |-> StorageErr("Failed to write session store")]
        ELSE [file |-> write_chunk(write_chunk(open_truncate(f), payload[1]), payload[2]),
              result |-> StorageOk(snapshot)]

\* The store at the start: no file, an empty one, one holding whitespace.
BlankFiles ==
    {[exists |-> FALSE, bytes |-> <<>>], [exists |-> TRUE, bytes |-> <<>>],
     [exists |-> TRUE, bytes |-> <<Whitespace_chunk>>]}

InitSnapshot ==
    /\ ListenerInit /\ NoSwitch /\ NoCall
    /\ file \in BlankFiles
    /\ storage_lock = 0 /\ written = <<>> /\ calls = <<>>

\* A call of write_snapshot_to_path; written tells whether the last call
\* returned Ok, and the snapshot it wrote if so.  input names the call made.
WriteSnapshot(snapshot, fail) ==
    /\ \E sessions_order \in IterationOrders(snapshot.sessions_by_agent),
          messages_order \in IterationOrders(snapshot.messages_by_session) :
          LET call == write_snapshot_to_path(file, snapshot, sessions_order,
                                             messages_order, fail)
          IN  /\ file' = call.file
              /\ output' = <<call.result>>
              /\ written' = <<[snapshot |-> call.result.snapshot, ok |-> call.result.ok]>>
    /\ input' = <<[op |-> "write_snapshot_to_path", io |-> TRUE]>>
    /\ UNCHANGED <<storage_lock, calls, mainVars, switchVars>>

\* A call of read_snapshot_from_path.
ReadSnapshot(io) ==
    /\ output' = <<read_snapshot_from_path(file, io)>>
    /\ input' = <<[op |-> "read_snapshot_from_path", io |-> io]>>
    /\ UNCHANGED <<file, storage_lock, written, calls, mainVars, switchVars>>

NextSnapshot ==
    \/ \E snapshot \in StorageSnapshots, fail \in WriteFailures :
           WriteSnapshot(snapshot, fail)
    \/ \E io \in BOOLEAN : ReadSnapshot(io)

SpecSnapshot == InitSnapshot /\ [][NextSnapshot]_vars

(***************************************************************************)
(* load_storage_snapshot and save_storage_snapshot (storage.rs 90-109),    *)
(* called concurrently: each takes the guard of AppState::storage_lock,    *)
(* holds it over the awaits of the read or the write, and drops it when it *)
(* returns.  storage_lock is the call that holds the guard (0: none); a    *)
(* call is at "idle" before it starts, at "lock" while it waits for the    *)
(* guard, then at the file operation it makes next, and at "done" once it  *)
(* has returned.  A save writes the file with create_dir_all, the open     *)
(* that truncates, and two writes.                                         *)
(***************************************************************************)
Callers == 1 .. MaxCalls

\* The snapshots saved here: sessions of any of the agents, no messages.
SavedSnapshots ==
    {s \in StorageSnapshots :
        /\ s.messages_by_session = StorageSnapshot_default.messages_by_session
        /\ \A a \in DOMAIN s.sessions_by_agent : s.sessions_by_agent[a] = <<>>}

IdleCall ==
    [op |-> "none", pc |-> "idle", snapshot |-> StorageSnapshot_default,
     doc |-> to_vec(StorageSnapshot_default, <<>>, <<>>),
     result |-> StorageOk(StorageSnapshot_default)]

\* Mutex::lock that never waits.
mutex_lock_ready_always(holder) == TRUE

\* Mutex::lock().await completes when no guard is alive.
mutex_lock_ready(holder) == holder = 0

\* The guard is dropped when the command returns.
drop_guard(holder, caller) == IF holder = caller THEN 0 ELSE holder

InitStorage ==
    /\ ListenerInit /\ NoSwitch /\ NoCall
    /\ file \in BlankFiles
    /\ storage_lock = 0
    /\ written = <<>>
    /\ calls = [c \in Callers |-> IdleCall]

\* The front end invokes load_storage_snapshot.
StartLoad(c) ==
    /\ calls[c].pc = "idle"
    /\ calls' = [calls EXCEPT ![c] = [IdleCall EXCEPT !.op = "load", !.pc = "lock"]]
    /\ UNCHANGED <<file, storage_lock, written, mainVars, switchVars, callVars>>

\* The front end invokes save_storage_snapshot; the payload to_vec will
\* produce is fixed by the iteration order of the HashMaps.
StartSave(c, snapshot) ==
    /\ calls[c].pc = "idle"
    /\ \E sessions_order \in IterationOrders(snapshot.sessions_by_agent),
          messages_order \in IterationOrders(snapshot.messages_by_session) :
          calls' = [calls EXCEPT ![c] =
                       [IdleCall EXCEPT !.op = "save", !.pc = "lock",
                                        !.snapshot = snapshot,
                                        !.doc = to_vec(snapshot, sessions_order,
                                                       messages_order)]]
    /\ UNCHANGED <<file, storage_lock, written, mainVars, switchVars, callVars>>

\* let _guard = state.storage_lock.lock().await;
Lock(c) ==
    /\ calls[c].pc = "lock"
    /\ mutex_lock_ready(storage_lock)
    /\ storage_lock' = c
    /\ calls' = [calls EXCEPT ![c].pc = IF calls[c].op = "load" THEN "read"
                                        ELSE "create_dir_all"]
    /\ UNCHANGED <<file, written, mainVars, switchVars, callVars>>

\* read_snapshot_from_path(&path).await, and the return.
LoadRead(c, io) ==
    /\ calls[c].pc = "read"
    /\ calls' = [calls EXCEPT ![c].pc = "done",
                              ![c].result = read_snapshot_from_path(file, io)]
    /\ storage_lock' = drop_guard(storage_lock, c)
    /\ UNCHANGED <<file, written, mainVars, switchVars, callVars>>

\* One file operation of write_snapshot_to_path; when it fails, and after the
\* last write, the command returns.
SaveStep(c, ok) ==
    /\ calls[c].pc \in {"create_dir_all", "open", "write 1", "write 2"}
    /\ LET at == calls[c].pc
           payload == Payload(calls[c].doc)
           returns == ~ok \/ at = "write 2"
       IN  /\ file' = IF ~ok \/ at = "create_dir_all" THEN file
                      ELSE IF at = "open" THEN open_truncate(file)
                      ELSE IF at = "write 1" THEN write_chunk(file, payload[1])
                      ELSE write_chunk(file, payload[2])
           /\ calls' = [calls EXCEPT
                  ![c].pc = IF returns THEN "done"
                            ELSE IF at = "create_dir_all" THEN "open"
                            ELSE IF at = "open" THEN "write 1"
                            ELSE "write 2",
                  ![c].result = IF ok THEN StorageOk(calls[c].snapshot)
                                ELSE StorageErr("Failed to write session store")]
           /\ storage_lock' = IF returns THEN drop_guard(storage_lock, c)
                              ELSE storage_lock
           /\ written' = IF returns
                         THEN <<[snapshot |-> IF ok THEN calls[c].snapshot
                                              ELSE StorageSnapshot_default,
                                 ok |-> ok]>>
                         ELSE written
    /\ UNCHANGED <<mainVars, switchVars, callVars>>

\* The front end has the result; the caller may invoke a command again.
Return(c) ==
    /\ calls[c].pc = "done"
    /\ calls' = [calls EXCEPT ![c] = IdleCall]
    /\ UNCHANGED <<file, storage_lock, written, mainVars, switchVars, callVars>>

NextStorage ==
    \/ \E c \in Callers : StartLoad(c)
    \/ \E c \in Callers, snapshot \in SavedSnapshots : StartSave(c, snapshot)
    \/ \E c \in Callers : Lock(c)
    \/ \E c \in Callers, io \in BOOLEAN : LoadRead(c, io)
    \/ \E c \in Callers, ok \in BOOLEAN : SaveStep(c, ok)
    \/ \E c \in Callers : Return(c)

SpecStorage == InitStorage /\ [][NextStorage]_vars

(***************************************************************************)
(* Properties.                                                             *)
(***************************************************************************)
Range(seq) == {seq[i] : i \in DOMAIN seq}
Count(seq, x) == Cardinality({i \in DOMAIN seq : seq[i] = x})
Prompts(seq) == [i \in 1 .. Len(seq) |-> seq[i].prompt]
OkSends == SelectSeq(sends, LAMBDA m : m.ok)
FailedSends == SelectSeq(sends, LAMBDA m : ~m.ok)
Sent(method) == \E i \in DOMAIN sends : sends[i].method = method

\* The last step handled the response to the outstanding request `method`.
Answered(method, error) ==
    last.op = "Response" /\ last.to = method /\ last.error = error

\* The last step was a drain: a session/load result, or a session/new result
\* with a session id.
Drained == Establishes(last)

\* C1 (order): of two prompts queued while no session id existed, the one
\* submitted first is sent first, and none is sent while an earlier one of them
\* has not been sent.
QueuedSentInOrder ==
    /\ \A i, j \in DOMAIN sent_prompts :
           (i < j /\ sent_prompts[i] \in queued_no_session
                  /\ sent_prompts[j] \in queued_no_session)
               => sent_prompts[i] < sent_prompts[j]
    /\ \A p \in queued_no_session \cap Range(sent_prompts) :
           \A q \in queued_no_session : q < p => q \in Range(sent_prompts)

\* C1 (drain): a drain sends the queue's prompts from the front; it stops at
\* the first send that fails, and the queue is then the unsent suffix, the
\* prompt that failed first; without a failure the queue is empty.
DrainLeavesUnsentSuffix ==
    (Drained' /\ channel_closed' = channel_closed) =>
        /\ \A i \in DOMAIN sends' : sends'[i].method = "session/prompt"
        /\ Prompts(sends') = SubSeq(queued_prompts, 1, Len(sends'))
        /\ \A i \in DOMAIN sends' : ~sends'[i].ok => i = Len(sends')
        /\ queued_prompts' = SubSeq(queued_prompts, Len(OkSends') + 1, Len(queued_prompts))
        /\ FailedSends' = <<>> => queued_prompts' = <<>>

\* C1: prompts queued while no session id existed are sent in submission order
\* with none skipped, and a send failure in the drain leaves exactly the unsent
\* suffix in the queue, the failed prompt first.
C1_QueuedPromptsDrainInOrder == []QueuedSentInOrder /\ [][DrainLeavesUnsentSuffix]_vars

C1_Witness ==
    /\ Drained
    /\ Len(sends) = 2 /\ sends[1].ok /\ ~sends[2].ok
    /\ queued_prompts = <<sends[2].prompt>>
    /\ sent_prompts = <<sends[1].prompt>>

\* C2: the ids allocated on a connection are strictly increasing in allocation
\* order (so pairwise distinct), every request sent carries an allocated id,
\* and no two outstanding requests share an id.
C2_RequestIdsUnique ==
    /\ \A i, j \in DOMAIN allocated : i < j => allocated[i] < allocated[j]
    /\ \A i \in DOMAIN sends :
           (pc = "connected" /\ sends[i].method \in RequestMethods)
               => sends[i].id \in Range(allocated)
    /\ \A i, j \in DOMAIN sends :
           (i < j /\ sends[i].method \in RequestMethods /\ sends[j].method \in RequestMethods)
               => sends[i].id < sends[j].id
    /\ LET handshake == <<initialize_request_id, session_load_request_id,
                          session_new_request_id>>
       IN  /\ \A i, j \in 1 .. 3 :
                  (i < j /\ handshake[i] # None) => handshake[i] # handshake[j]
           /\ \A i \in 1 .. 3 :
                  /\ handshake[i] \notin pending_prompt_request_ids
                  /\ handshake[i] \notin DOMAIN pending_set_model_requests
    /\ pending_prompt_request_ids \cap DOMAIN pending_set_model_requests = {}

C2_Witness ==
    /\ Len(allocated) >= 4
    /\ pending_prompt_request_ids # {}
    /\ DOMAIN pending_set_model_requests # {}

\* C3: an error response to the outstanding session/load makes the adapter send
\* one session/new and nothing else, and no connection ever carries a second
\* session/new.
C3_OneFallbackSessionNew ==
    /\ Count(outbox, "session/new") <= 1
    /\ Answered("session/load", TRUE) =>
           /\ Len(sends) = 1
           /\ sends[1].method = "session/new"
           /\ outbox = <<"initialize", "session/load", "session/new">>

C3_Witness ==
    /\ Answered("session/load", TRUE)
    /\ outbox = <<"initialize", "session/load", "session/new">>
    /\ session_new_request_id # None

\* A session/new of this connection was answered and left no session id.
NewLeftNoSession ==
    /\ pc = "connected"
    /\ Count(outbox, "session/new") > 0
    /\ session_new_request_id = None
    /\ session_id = None

\* C4 (step): a session/new result without a sessionId emits one agent-error,
\* leaves no session id, active or cached, and sends no queued prompt.
NewWithoutIdIsFatal ==
    (Answered("session/new", FALSE) /\ last.sessionId = None) =>
        /\ emits = <<"agent-error">>
        /\ session_id = None
        /\ cached_session_id = None
        /\ sends = <<>>
        /\ ~established

\* C4 (afterwards): on that connection the session id stays None and no
\* session/prompt is sent.
NoSessionStays ==
    (NewLeftNoSession /\ pc' = "connected") =>
        /\ NewLeftNoSession'
        /\ ~Sent("session/prompt")'
        /\ ~established'

\* C4: a session/new result that carries no string sessionId emits an
\* agent-error, leaves the session id None, sends no queued prompt, and the
\* session is never ready on that connection.
C4_NewWithoutSessionIdNeverReady == []NewWithoutIdIsFatal /\ [][NoSessionStays]_vars

C4_Witness ==
    /\ Answered("session/new", FALSE) /\ last.sessionId = None
    /\ emits = <<"agent-error">>
    /\ queued_prompts # <<>>
    /\ session_id = None

\* C5: the attempt counter never exceeds 5; the 5th consecutive failed connect
\* emits one agent-error and stops the task, which then takes no further step.
C5_RetriesCappedAtFive ==
    /\ [](/\ retry_count <= max_retries
          /\ consecutive_failures <= max_retries
          /\ consecutive_failures = max_retries =>
                 /\ retry_count = max_retries
                 /\ last.op = "ConnectFail"
                 /\ emits = <<"agent-error">>
                 /\ pc = "stopped")
    /\ [][pc # "stopped"]_vars

C5_Witness ==
    /\ consecutive_failures = max_retries
    /\ pc = "stopped"
    /\ emits = <<"agent-error">>
    /\ connects > 0

\* C6: a successful connect sets the counter to 0 and a failed one adds one to
\* it, followed by one delayed retry while the counter is below 5: the counter
\* is the number of failed connects since the last success, k < 5 failures and
\* a success make exactly k delayed retries, and the handshake then starts with
\* the counter at 0.
C6_CounterResetsOnSuccess ==
    /\ [](/\ retry_count = consecutive_failures
          /\ sleeps = (IF consecutive_failures < max_retries
                       THEN consecutive_failures ELSE max_retries - 1)
          /\ pc = "sleeping" => last.op = "ConnectFail"
          /\ (pc = "stopped" /\ last.op = "ConnectFail") =>
                 consecutive_failures = max_retries
          /\ last.op = "ConnectOk" =>
                 /\ retry_count = 0
                 /\ Len(sends) = 1 /\ sends[1].method = "initialize")
    /\ [][last'.op = "ConnectOk" =>
              /\ consecutive_failures < max_retries
              /\ sleeps = consecutive_failures]_vars

C6_Witness ==
    /\ consecutive_failures = max_retries - 1
    /\ pc = "sleeping"
    /\ connects > 0
    /\ sleeps = max_retries - 1

\* C7: on every connection the session id is None until the connection has
\* received a successful session/load or session/new response, and no
\* session/prompt, session/cancel or session/set_model is sent before it.
C7_NoSessionBeforeHandshake ==
    (pc = "connected" /\ ~established) =>
        /\ session_id = None
        /\ ~Sent("session/prompt")
        /\ ~Sent("session/cancel")
        /\ ~Sent("session/set_model")

\* C8: the first request of a connection is initialize; session/load and
\* session/new are sent only in reaction to a result for initialize (and
\* session/new to a failed session/load), and the reaction to that result is
\* one request: session/load with the cached id if there is one, else
\* session/new.
C8_HandshakeOrder ==
    /\ pc = "connected" => first_request = "initialize"
    /\ outbox # <<>> => outbox[1] = "initialize"
    /\ last.op = "ConnectOk" => (Len(sends) = 1 /\ sends[1].method = "initialize")
    /\ Sent("session/load") => Answered("initialize", FALSE)
    /\ Sent("session/new") =>
           Answered("initialize", FALSE) \/ Answered("session/load", TRUE)
    /\ Answered("initialize", FALSE) =>
           /\ Len(sends) = 1
           /\ IF cached_session_id # None
              THEN /\ sends[1].method = "session/load"
                   /\ sends[1].session = cached_session_id
              ELSE sends[1].method = "session/new"
    /\ Answered("initialize", TRUE) => sends = <<>>

C8_Witness ==
    /\ Answered("initialize", FALSE)
    /\ cached_session_id # None
    /\ sends[1].method = "session/load"
    /\ sends[1].ok

\* C9: an error response to initialize emits one agent-error and ends the
\* connection attempt: the adapter stops servicing the socket.
C9_InitializeErrorEndsConnection ==
    Answered("initialize", TRUE) =>
        /\ emits = <<"agent-error">>
        /\ sends = <<>>
        /\ pc # "connected"

\* C10: an error response to session/new emits one agent-error and aborts the
\* connection, and the session is not ready.
C10_SessionNewErrorAborts ==
    Answered("session/new", TRUE) =>
        /\ emits = <<"agent-error">>
        /\ pc # "connected"
        /\ session_id = None

\* C11: once the owner has closed the command channel, the task makes no
\* further connection attempt, in whatever state it is.
C11_NoConnectAfterChannelClose ==
    [][channel_closed =>
           /\ connects' = connects
           /\ consecutive_failures' = consecutive_failures]_vars

\* C12: the task never stops because of a transport error without having
\* emitted an agent-error, and a request whose send failed ends the connection
\* (so that the retry loop connects again).
C12_TransportErrorsRetried ==
    /\ (pc = "stopped" /\ last.op # "ChannelClosed") => emits = <<"agent-error">>
    /\ pc = "connected" =>
           \A i \in DOMAIN sends : sends[i].method \in RequestMethods => sends[i].ok

\* C13: whenever a session/prompt is sent successfully, no prompt submitted
\* before it is still waiting in the queue (prompts are numbered in submission
\* order).
C13_PromptsLeaveInSubmissionOrder ==
    \A i \in DOMAIN sends :
        (sends[i].method = "session/prompt" /\ sends[i].ok)
            => \A k \in DOMAIN queued_prompts : queued_prompts[k] > sends[i].prompt

\* The step receives a command from the channel (the n-th command is numbered n).
Received(op) == last'.op = op /\ commands_submitted' = commands_submitted + 1

\* C14: UserPrompt with a session id sends one session/prompt with a fresh id
\* and that session id, and when the send succeeds the id joins the pending
\* prompt set and the queue is unchanged; without a session id nothing is sent,
\* no id is allocated and the prompt is appended at the tail of the queue.
C14_UserPromptEffect ==
    [][Received("UserPrompt") =>
           IF session_id # None
           THEN /\ Len(sends') = 1
                /\ sends'[1].method = "session/prompt"
                /\ sends'[1].id = rpc_id_counter
                /\ rpc_id_counter \notin Range(allocated)
                /\ sends'[1].session = session_id
                /\ sends'[1].prompt = commands_submitted'
                /\ sends'[1].ok =>
                       /\ pc' = "connected"
                       /\ pending_prompt_request_ids' =
                              pending_prompt_request_ids \cup {rpc_id_counter}
                       /\ queued_prompts' = queued_prompts
           ELSE /\ sends' = <<>>
                /\ rpc_id_counter' = rpc_id_counter
                /\ allocated' = allocated
                /\ pending_prompt_request_ids' = pending_prompt_request_ids
                /\ queued_prompts' = Append(queued_prompts, commands_submitted')]_vars

C14_Witness ==
    /\ last.op = "UserPrompt"
    /\ Len(sends) = 1 /\ sends[1].ok
    /\ sends[1].id \in pending_prompt_request_ids
    /\ queued_prompts # <<>>

\* C15: CancelPrompt without a session id sends nothing, allocates no id and
\* leaves the queue, the pending sets and the session id as they were; with a
\* session id it sends one session/cancel carrying that id.
C15_CancelPromptEffect ==
    [][Received("CancelPrompt") =>
           IF session_id = None
           THEN /\ sends' = <<>>
                /\ emits' = <<>>
                /\ replies' = <<>>
                /\ UNCHANGED <<rpc_id_counter, allocated, queued_prompts, session_id,
                               pending_prompt_request_ids, pending_set_model_requests>>
           ELSE /\ Len(sends') = 1
                /\ sends'[1].method = "session/cancel"
                /\ sends'[1].id = rpc_id_counter
                /\ sends'[1].session = session_id]_vars

C15_Witness ==
    /\ last.op = "CancelPrompt"
    /\ sends = <<>>
    /\ session_id = None
    /\ queued_prompts # <<>>

\* C16: a cancel request received before the session is ready is buffered by
\* the prompt queue.
C16_CancelBufferedBeforeReady ==
    [][(Received("CancelPrompt") /\ session_id = None) =>
           Len(queued_prompts') = Len(queued_prompts) + 1]_vars

\* C17: SetModel without a session id resolves its reply with the error
\* "Session not ready" and sends nothing; with a session id it sends one
\* session/set_model, and stores the responder under the new id unresolved
\* when the send succeeds, or resolves it with an error and stores nothing
\* when the send fails.
C17_SetModelEffect ==
    [][Received("SetModel") =>
           LET response == commands_submitted'
           IN  IF session_id = None
               THEN /\ sends' = <<>>
                    /\ replies' = <<[responder |-> response, ok |-> FALSE,
                                     value |-> "Session not ready"]>>
                    /\ UNCHANGED <<rpc_id_counter, pending_set_model_requests>>
               ELSE /\ Len(sends') = 1
                    /\ sends'[1].method = "session/set_model"
                    /\ sends'[1].id = rpc_id_counter
                    /\ sends'[1].session = session_id
                    /\ IF sends'[1].ok
                       THEN /\ replies' = <<>>
                            /\ pending_set_model_requests' =
                                   map_insert(pending_set_model_requests, rpc_id_counter,
                                              [response |-> response,
                                               model |-> sends'[1].text])
                       ELSE /\ Len(replies') = 1
                            /\ replies'[1].responder = response
                            /\ ~replies'[1].ok
                            /\ pending_set_model_requests' = EmptyMap]_vars

C17_Witness ==
    /\ last.op = "SetModel"
    /\ Len(sends) = 1 /\ ~sends[1].ok
    /\ Len(replies) = 1 /\ ~replies[1].ok

\* The step is one of the task (the owner closing the channel is none).
TaskStep == channel_closed' = channel_closed

\* t is s without its leading and trailing blanks.
IsTrimOf(t, s) ==
    \E i, j \in 0 .. Len(s) :
        /\ i + Len(t) + j = Len(s)
        /\ \A k \in 1 .. i : s[k] \in Whitespace
        /\ \A k \in 1 .. Len(t) : s[i + k] = t[k]
        /\ \A k \in (Len(s) - j + 1) .. Len(s) : s[k] \in Whitespace
        /\ t # <<>> => (t[1] \notin Whitespace /\ t[Len(t)] \notin Whitespace)

Trimmed(s) ==
    CHOOSE t \in {<<>>} \cup {SubSeq(s, i, j) : i, j \in 1 .. Len(s)} : IsTrimOf(t, s)

\* The effective model of a session/set_model result: its trimmed
\* currentModelId if that is a non-empty string, else the requested model.
EffectiveModel(currentModelId, requested_model) ==
    IF currentModelId # <<>> /\ Trimmed(currentModelId[1]) # <<>>
    THEN to_string(Trimmed(currentModelId[1]))
    ELSE requested_model

\* C18: a result response to a pending session/set_model resolves the stored
\* responder with, and emits one model-registry event whose currentModel is,
\* the same value: the trimmed non-empty currentModelId of the result, or else
\* the model name of the SetModel command.
C18_SetModelResolvesEffectiveModel ==
    [][(TaskStep /\ Answered("session/set_model", FALSE)') =>
           LET entry == pending_set_model_requests[last'.id]
               expected == EffectiveModel(last'.currentModelId, entry.model)
           IN  /\ replies' = <<[responder |-> entry.response, ok |-> TRUE,
                                value |-> expected]>>
               /\ emits' = <<"model-registry">>
               /\ current_models' = <<expected>>
               /\ last'.id \notin DOMAIN pending_set_model_requests']_vars

C18_Witness ==
    /\ Answered("session/set_model", FALSE)
    /\ last.currentModelId = << <<" ", "m", "2", " ">> >>
    /\ Len(replies) = 1 /\ replies[1].ok /\ replies[1].value = "m2"
    /\ current_models = <<"m2">>

\* C19: a response is dispatched to the handler of the outstanding request
\* that has its id, and that entry alone is removed, so the id is outstanding
\* no more; a response whose id is that of no outstanding request (answered
\* before, or never allocated) changes no state, emits and sends nothing, and
\* leaves the connection open.  The id is the one parse_rpc_id reads.
C19_ResponsesDispatchedOnce ==
    [][TaskStep =>
           /\ last'.op = "Response" =>
                  /\ last'.id \in PendingIds
                  /\ pc' = "connected"
                  /\ last'.id \notin PendingIds'
                  /\ (PendingIds \ {last'.id}) \subseteq PendingIds'
           /\ last'.op = "Unmatched" =>
                  /\ last'.id \notin PendingIds
                  /\ UNCHANGED <<taskVars, connVars>>
                  /\ sends' = <<>>
                  /\ emits' = <<>>
                  /\ replies' = <<>>]_vars

C19_Witness ==
    /\ last.op = "Unmatched"
    /\ last.id = 1
    /\ pc = "connected"
    /\ 1 \in Range(allocated)
    /\ pending_prompt_request_ids # {}

\* A request of the agent leaves the pending ids, the queue, the session id
\* and the id counter as they were.
ServerRequestLeavesStateUnchanged ==
    [][(TaskStep /\ last'.op = "Request") => UNCHANGED <<taskVars, connVars>>]_vars

\* C20: every inbound message with a method other than session/update and
\* with an id is answered by exactly one reply that carries that id (as
\* parse_rpc_id reads it): the allow_once outcome for session/request_permission, the stub results for
\* _iflow/user/questions and _iflow/plan/exit, error -32601 for a method that
\* is not served.
C20_ServerRequestsAnsweredOnce ==
    last.op = "Request" =>
        /\ Len(sends) = 1
        /\ last.id # None /\ sends[1].id = last.id
        /\ CASE last.to = "session/request_permission" ->
                    sends[1].method = "result" /\ sends[1].text = "allow_once"
             [] last.to = "_iflow/user/questions" ->
                    sends[1].method = "result" /\ sends[1].text = "answers"
             [] last.to = "_iflow/plan/exit" ->
                    sends[1].method = "result" /\ sends[1].text = "approved"
             [] last.to \in {"fs/read_text_file", "fs/write_text_file"} ->
                    sends[1].method \in {"result", "error"}
             [] OTHER ->
                    sends[1].method = "error"
                        /\ sends[1].text = "-32601 Method not found"

\* C21: an fs/read_text_file or fs/write_text_file request is answered with
\* error -32602 and no file call when a required parameter is missing, with
\* error -32603 when the file call fails, and with a result when it succeeds
\* (content, path and sessionId for a read, null for a write); nothing is
\* emitted and the connection stays open.
C21_FsRequestOutcomes ==
    (last.op = "Request" /\ last.id # None
        /\ last.to \in {"fs/read_text_file", "fs/write_text_file"}) =>
        /\ emits = <<>>
        /\ pc = "connected"
        /\ Len(sends) = 1
        /\ IF ~last.path
           THEN /\ sends[1].method = "error"
                /\ sends[1].text = "-32602 Missing path"
                /\ fs_calls = <<>>
           ELSE IF last.to = "fs/write_text_file" /\ ~last.content
           THEN /\ sends[1].method = "error"
                /\ sends[1].text = "-32602 Missing content"
                /\ fs_calls = <<>>
           ELSE IF ~last.io_ok
           THEN /\ sends[1].method = "error"
                /\ sends[1].text = IF last.to = "fs/read_text_file"
                                   THEN "-32603 Failed to read file"
                                   ELSE "-32603 Failed to write file"
           ELSE /\ sends[1].method = "result"
                /\ sends[1].text = IF last.to = "fs/read_text_file"
                                   THEN "content,path,sessionId" ELSE "null"

C21_Witness ==
    /\ last.op = "Request" /\ last.to = "fs/write_text_file"
    /\ last.path /\ ~last.content
    /\ Len(sends) = 1 /\ sends[1].text = "-32602 Missing content"
    /\ fs_calls = <<>>

\* The events a session/update is forwarded as.
Forwarded(update) ==
    CASE update \in {"agent_message_chunk", "agent_thought_chunk"} -> <<"stream-message">>
      [] update = "tool_call" -> <<"tool-call">>
      [] update = "available_commands_update" -> <<"command-registry">>
      [] OTHER -> <<>>

C23_PromptResultEmitsTaskFinish ==
    Answered("session/prompt", FALSE) =>
        LET reason == IF last.stopReason.kind = "string" THEN last.stopReason.s
                      ELSE "completed"
        IN  /\ finish_reasons = <<reason>>
            /\ emits = IF reason = "end_turn" THEN <<"task-finish">>
                       ELSE <<"stream-message", "task-finish">>

C23_Witness ==
    /\ Answered("session/prompt", FALSE)
    /\ last.stopReason = Str("end_turn")
    /\ emits = <<"task-finish">>
    /\ finish_reasons = <<"end_turn">>

\* C24: an error response to a tracked session/prompt removes its id from
\* the pending set and emits one agent-error; the connection stays open and
\* the session id, the queue, the other pending ids and the retry counter
\* are unchanged.
C24_PromptErrorIsNotFatal ==
    [][(TaskStep /\ last'.op = "Response" /\ last'.to = "session/prompt"
            /\ last'.error) =>
          /\ last'.id \in pending_prompt_request_ids
          /\ pending_prompt_request_ids' = pending_prompt_request_ids \ {last'.id}
          /\ emits' = <<"agent-error">>
          /\ sends' = <<>>
          /\ pc' = "connected"
          /\ UNCHANGED <<session_id, cached_session_id, queued_prompts, retry_count,
                         pending_set_model_requests, initialize_request_id,
                         session_load_request_id, session_new_request_id,
                         rpc_id_counter>>]_vars

C24_Witness ==
    /\ Answered("session/prompt", TRUE)
    /\ emits = <<"agent-error">>
    /\ pc = "connected" /\ session_id # None
    /\ pending_prompt_request_ids # {}

\* C25: switch_agent_model returns success without a restart exactly when the
\* reply is Ok within the timeout; in every other outcome it removes the
\* registered instance, kills its process and spawns an agent with the target
\* model.
C25_SwitchSucceedsOrRestarts ==
    (switch_pc = "done" /\ target_model # "") =>
        IF outcome = "reply_ok"
        THEN returned = "Ok: success" /\ spawned_model = ""
        ELSE /\ spawned_model = target_model
             /\ 1 \notin agents
             /\ 1 \notin processes

\* C26: after an error response to session/load neither the active session
\* id nor the cached session id holds the id whose load failed.
C26_FailedSessionIdDiscarded ==
    [][(TaskStep /\ last'.op = "Response" /\ last'.to = "session/load"
            /\ last'.error) =>
          /\ session_id' # session_id
          /\ cached_session_id' # session_id]_vars

\* C27: from the end of a connection to the next connect the cached session
\* id and the prompt queue stay as they were, and the new connection starts
\* with the id counter at 1 (initialize takes id 1) and with no pending
\* prompt ids and no pending set-model requests.
C27_ReconnectKeepsSessionAndQueue ==
    [][(TaskStep /\ pc = "connecting") =>
          /\ cached_session_id' = cached_session_id
          /\ queued_prompts' = queued_prompts
          /\ pc' = "connected" =>
                 /\ allocated' = <<1>>
                 /\ initialize_request_id' = 1
                 /\ rpc_id_counter' = 2
                 /\ pending_prompt_request_ids' = {}
                 /\ pending_set_model_requests' = EmptyMap]_vars

C27_Witness ==
    /\ last.op = "ConnectOk" /\ pc = "connected"
    /\ connects = 2
    /\ cached_session_id # None
    /\ queued_prompts # <<>>
    /\ allocated = <<1>>

\* C28: at most one of the initialize, session/load and session/new requests
\* is outstanding, and each of the three is sent at most once on a
\* connection.
C28_OneHandshakeRequestOutstanding ==
    /\ Cardinality({r \in {"initialize", "session/load", "session/new"} :
                      CASE r = "initialize" -> initialize_request_id # None
                        [] r = "session/load" -> session_load_request_id # None
                        [] r = "session/new" -> session_new_request_id # None}) <= 1
    /\ \A m \in HandshakeMethods : Count(outbox, m) <= 1

C28_Witness ==
    /\ pc = "connected"
    /\ session_new_request_id # None
    /\ initialize_request_id = None /\ session_load_request_id = None
    /\ outbox = <<"initialize", "session/load", "session/new">>

\* What an entry contributes: the text of a "content" entry (the text of
\* a text content, the serialisation of a content of another type), "[diff] "
\* and the path for a "diff" entry with a string path, nothing otherwise.
Contribution(item) ==
    CASE item.type = Str("content") /\ item.content # <<>> ->
            LET c == item.content[1]
            IN  IF c.type = Str("text")
                THEN (IF c.text.kind = "string" THEN <<c.text.s>> ELSE <<>>)
                ELSE IF c.type.kind = "string" THEN <<c.json>> ELSE <<>>
      [] item.type = Str("diff") /\ item.path.kind = "string" -> <<"[diff] " \o item.path.s>>
      [] OTHER -> <<>>

\* The contributions of the first n entries, newline-joined in entry order.
RECURSIVE Rendered(_, _)
Rendered(items, n) ==
    IF n = 0 THEN <<>>
    ELSE LET before == Rendered(items, n - 1)
             this == Contribution(items[n])
         IN  IF this = <<>> THEN before
             ELSE IF before = <<>> THEN this
             ELSE <<before[1] \o "\n" \o this[1]>>

\* C29: text_from_tool_contents gives the newline-joined contributions of the
\* entries in entry order, and nothing when no entry contributes.
C29_ToolContentsRendered ==
    output # <<>> =>
        output[1] = IF input.array THEN Rendered(input.items, Len(input.items))
                    ELSE <<>>

C29_Witness ==
    /\ output = << <<"line1\n[diff] src/x.ts">> >>
    /\ Len(input.items) = 2

\* The array normalized_command_entries reads: availableCommands of the
\* payload if that is an array, else availableCommands of its _meta.
CommandSource(payload) ==
    IF payload.availableCommands.kind = "array" THEN payload.availableCommands.items
    ELSE IF payload._meta # <<>> /\ payload._meta[1].availableCommands.kind = "array"
    THEN payload._meta[1].availableCommands.items
    ELSE <<>>

\* An entry is kept: its name is a string that is not blank.
Named(entry) == entry.name.kind = "string" /\ Trimmed(entry.name.s) # <<>>

\* The normal form of a name.
NormalName(name) ==
    IF Trimmed(name)[1] = "/" THEN Trimmed(name) ELSE <<"/">> \o Trimmed(name)

\* C30: normalized_command_entries keeps the entries with a name that is not
\* blank, in input order, each with the trimmed name if that starts with '/'
\* and with '/' put before it otherwise; normalising a name again changes
\* nothing; the array is availableCommands of the payload, else of its _meta.
C30_CommandEntriesNormalized ==
    output # <<>> =>
        LET source == CommandSource(input)
            kept == SelectSeq(source, Named)
            names == output[1]
        IN  /\ Len(names) = Len(kept)
            /\ \A k \in 1 .. Len(kept) :
                   /\ names[k] = NormalName(kept[k].name.s)
                   /\ names[k][1] = "/"
                   /\ NormalName(names[k]) = names[k]
                   /\ normalized_command_entry([name |-> Str(names[k])]) = <<names[k]>>

C30_Witness ==
    /\ output = << << <<"/", "y">>, <<"/", "x">> >> >>
    /\ input.availableCommands.kind = "array"
    /\ Len(input.availableCommands.items) = 2
    /\ input._meta # <<>>

\* C31: the snapshot store is a register that starts as the empty snapshot.
\* A read_snapshot_from_path whose read_to_string does not fail returns the
\* default snapshot when write_snapshot_to_path was never called (the file is
\* missing, empty or whitespace), and the snapshot of the last call when
\* that call returned Ok.
C31_SnapshotStoreIsRegister ==
    (input # <<>> /\ input[1].op = "read_snapshot_from_path" /\ input[1].io) =>
        /\ written = <<>> => output[1] = StorageOk(StorageSnapshot_default)
        /\ (written # <<>> /\ written[1].ok) => output[1] = StorageOk(written[1].snapshot)

\* A snapshot with two agents and a message without agent was written and
\* read back.
C31_Witness ==
    /\ input # <<>> /\ input[1].op = "read_snapshot_from_path" /\ input[1].io
    /\ written # <<>> /\ written[1].ok
    /\ DOMAIN written[1].snapshot.sessions_by_agent = AgentIds
    /\ \E k \in DOMAIN written[1].snapshot.messages_by_session :
           /\ written[1].snapshot.messages_by_session[k] # <<>>
           /\ written[1].snapshot.messages_by_session[k][1].agent_id = NoneString
    /\ output[1] = StorageOk(written[1].snapshot)

\* A step handled a line of an inbound frame.
LineHandled == last.op \in {"Request", "Notification", "Response", "Unmatched", "Ignored"}

\* C32: the lines of a frame are dispatched one after the other as if each
\* had come alone.  While the connection is kept open the per-line loop goes
\* on to the next line of the frame, whatever the line before did.
C32_NoLineOfFrameSkipped ==
    (LineHandled /\ last.more /\ pc = "connected") => in_frame

\* C33: the receive timeout, like a Ping or a Pong frame, keeps the connection
\* open, sends nothing, emits nothing and changes neither the state of the
\* task nor that of the connection; a close frame and the end of the stream
\* end the connection.
C33_IdleTickChangesNothing ==
    [][/\ (TaskStep /\ last'.to \in {"Timeout", "Ping", "Pong"}) =>
             /\ last'.op = "Idle"
             /\ pc' = "connected"
             /\ sends' = <<>> /\ emits' = <<>> /\ replies' = <<>>
             /\ UNCHANGED <<taskVars, connVars>>
       /\ (TaskStep /\ last'.to \in {"Close", "EndOfStream"}) =>
             /\ last'.op = "Closed"
             /\ pc = "connected" /\ pc' = "connecting"
             /\ session_id' = None /\ pending_prompt_request_ids' = {}]_vars

\* The timeout came while a prompt was waiting for its response.
C33_Witness ==
    /\ last.op = "Idle" /\ last.to = "Timeout"
    /\ pc = "connected" /\ session_id # None
    /\ pending_prompt_request_ids # {}

\* C34: over the whole life of the task a prompt is sent successfully as
\* session/prompt at most once, and a prompt whose send succeeded is not in
\* the queue; no prompt is in the queue twice.
C34_PromptSentAtMostOnce ==
    /\ \A p \in Range(sent_prompts) : Count(sent_prompts, p) = 1
    /\ \A p \in Range(sent_prompts) : p \notin Range(queued_prompts)
    /\ \A p \in Range(queued_prompts) : Count(queued_prompts, p) = 1

\* A prompt whose send had failed is sent by the drain of a later connection:
\* it was in the queue without having been queued for lack of a session.
C34_Witness ==
    /\ last.op = "Response" /\ connects = 2
    /\ \E i \in DOMAIN sends :
           /\ sends[i].method = "session/prompt" /\ sends[i].ok
           /\ sends[i].prompt \notin queued_no_session
           /\ Count(sent_prompts, sends[i].prompt) = 1

\* C35: a session/prompt that was sent stays pending until the step that
\* emits its task-finish or its agent-error, so that every prompt sent ends
\* in exactly one of the two events: an id leaves the pending prompt ids only
\* one at a time and in a step that emits one such event, also when the
\* connection is lost.
C35_SentPromptGetsOneEvent ==
    [][LET gone == pending_prompt_request_ids \ pending_prompt_request_ids'
       IN  gone # {} =>
               /\ Cardinality(gone) = 1
               /\ Count(emits', "task-finish") + Count(emits', "agent-error") = 1]_vars

\* The responders held in a pending_set_model_requests map.
Held(pending) == {pending[id].response : id \in DOMAIN pending}

\* C36: a step resolves a responder at most once, and only the responder of
\* the SetModel command it received or one held in the pending map, which
\* then holds it no longer; the map holds a responder under one id only, and
\* once the connection has ended or the task has stopped the map is dropped,
\* so that no responder stays unresolved and unclosed.
C36_ReplyResolvedOnce ==
    [][LET resolved == {replies'[i].responder : i \in DOMAIN replies'}
           received == IF last'.op = "SetModel" THEN {commands_submitted'} ELSE {}
       IN  /\ Cardinality(resolved) = Len(replies')
           /\ resolved \subseteq Held(pending_set_model_requests) \cup received
           /\ resolved \cap Held(pending_set_model_requests') = {}
           /\ Held(pending_set_model_requests') \subseteq
                  Held(pending_set_model_requests) \cup received
           /\ received \cap Held(pending_set_model_requests) = {}
           /\ Cardinality(Held(pending_set_model_requests')) =
                  Cardinality(DOMAIN pending_set_model_requests')
           /\ pc' # "connected" => pending_set_model_requests' = EmptyMap]_vars

\* A response resolved one responder while another one is still held.
C36_Witness ==
    /\ last.op = "Response" /\ last.to = "session/set_model"
    /\ Len(replies) = 1
    /\ pending_set_model_requests # EmptyMap
    /\ replies[1].responder \notin Held(pending_set_model_requests)

\* C37: once the owner has dropped the command channel, the task emits no
\* agent-error; here for the task outside the select loop, where it does not
\* poll the channel.
C37_NoErrorAfterChannelDropped ==
    [][(channel_closed /\ pc # "connected") =>
           \A i \in DOMAIN emits' : emits'[i] # "agent-error"]_vars

\* The session of the connection is ready and the queue is empty.
SessionReady == established /\ session_id # None /\ queued_prompts = <<>>

\* C38: on a connection where no send fails and the agent answers the
\* handshake with results (session/load possibly with an error, followed by
\* the fallback session/new), the session becomes ready with the queue empty
\* unless the connection ends first, and the step that makes it ready sends
\* the prompts that were queued, in their order.
C38_HandshakeCompletes ==
    /\ [][(~established /\ established') =>
              /\ Prompts(OkSends') = queued_prompts
              /\ \A i \in DOMAIN sends' : sends'[i].method = "session/prompt"
              /\ SessionReady']_vars
    /\ (pc = "connected") ~> (pc # "connected" \/ SessionReady)

\* The session/new of the second connection made the session ready and the
\* two prompts that were queued were sent.
C38_Witness ==
    /\ SessionReady
    /\ Answered("session/new", FALSE) /\ connects = 2
    /\ Len(OkSends) = 2

\* C39: the adapter makes at most 5 connection attempts without a session
\* becoming ready in between.  As long as no session id is cached no session
\* has been ready yet, and the attempts made so far are at least the connects
\* that succeeded and the connects that failed since the last of them.
C39_AttemptsWithoutSessionBounded ==
    cached_session_id = None => connects + consecutive_failures <= max_retries

\* The calls that hold the guard: between the lock and the return.
InCriticalSection ==
    {c \in Callers :
        calls[c].pc \in {"read", "create_dir_all", "open", "write 1", "write 2"}}

\* The file holds nothing, or whitespace, or one whole payload.
FileWhole ==
    \/ ~file.exists
    \/ trim_chunks(file.bytes) = <<>>
    \/ from_str(file.bytes).ok

\* C40: load_storage_snapshot and save_storage_snapshot exclude each other.
\* At most one call is between the lock and its return, and that call holds
\* the guard; the chunks in the file come from one payload; a load reads a
\* file that is whole unless the last save failed, and what it returns is
\* the snapshot of the last save when that save returned Ok, the default
\* when nothing was saved.
C40_StorageCallsExclusive ==
    /\ Cardinality(InCriticalSection) <= 1
    /\ \A c \in InCriticalSection : storage_lock = c
    /\ \A i, j \in DOMAIN file.bytes :
           (file.bytes[i].kind = "json" /\ file.bytes[j].kind = "json")
               => file.bytes[i].doc = file.bytes[j].doc
    /\ \A c \in Callers :
           calls[c].pc = "read" =>
               /\ (written = <<>> \/ written[1].ok) => FileWhole
               /\ written = <<>> =>
                      read_snapshot_from_path(file, TRUE)
                          = StorageOk(StorageSnapshot_default)
               /\ (written # <<>> /\ written[1].ok) =>
                      read_snapshot_from_path(file, TRUE)
                          = StorageOk(written[1].snapshot)

\* A load holds the guard and is about to read what a save wrote, while a
\* save waits for the guard.
C40_Witness ==
    /\ \E c \in Callers : calls[c].pc = "read" /\ storage_lock = c
    /\ \E c \in Callers : calls[c].pc = "lock" /\ calls[c].op = "save"
    /\ written # <<>> /\ written[1].ok
    /\ DOMAIN written[1].snapshot.sessions_by_agent = AgentIds

====
